---------------------------- MODULE Spec2Model ----------------------------
(***************************************************************************)
(* Tally -> Attio webhook relay.  The repository holds several versions of *)
(* one serverless handler; each version is modelled as a "variant" of the  *)
(* same state machine: receive the request, validate, issue the outbound   *)
(* CRM calls one after another (each `await` is a step boundary), respond. *)
(*                                                                         *)
(* JavaScript strings are sequences of one-character strings, so that      *)
(* trim, toLowerCase, split and the URL host extraction are computed and   *)
(* not assumed.                                                            *)
(***************************************************************************)
EXTENDS Integers, Sequences, FiniteSets, TLC

(***************************************************************************)
(* Bounds of the model.                                                    *)
(***************************************************************************)
MaxDeliveries == 2

(***************************************************************************)
(* String literals of the source and of the sample submissions.            *)
(***************************************************************************)
LblFullName == <<"F", "u", "l", "l", " ", "N", "a", "m", "e">>
LblCompanyName == <<"C", "o", "m", "p", "a", "n", "y", " ", "N", "a", "m", "e">>
LblCompanyWebsite == <<"C", "o", "m", "p", "a", "n", "y", " ", "W", "e", "b", "s", "i", "t", "e">>
LblEmailAddress == <<"E", "m", "a", "i", "l", " ", "A", "d", "d", "r", "e", "s", "s">>
LblEmailAddressLc == <<"e", "m", "a", "i", "l", " ", "a", "d", "d", "r", "e", "s", "s">>
LblWorkEmail == <<"W", "o", "r", "k", " ", "E", "m", "a", "i", "l">>
LblWorkEmailLc == <<"W", "o", "r", "k", " ", "e", "m", "a", "i", "l">>
LblCompanyWebsiteLc == <<"C", "o", "m", "p", "a", "n", "y", " ", "w", "e", "b", "s", "i", "t", "e">>
LblYourName == <<"W", "h", "a", "t", "'", "s", " ", "y", "o", "u", "r", " ", "n", "a", "m", "e", "?">>
TxtAdaLovelace == <<"A", "d", "a", " ", "L", "o", "v", "e", "l", "a", "c", "e">>
TxtAda == <<"A", "d", "a">>
TxtJane == <<"J", "a", "n", "e">>
TxtAcme == <<"A", "c", "m", "e">>
TxtAdaEmail == <<"a", "d", "a", "@", "e", "x", "a", "m", "p", "l", "e", ".", "c", "o", "m">>
TxtJaneEmail == <<"j", "a", "n", "e", "@", "g", "m", "a", "i", "l", ".", "c", "o", "m">>
TxtBobEmail == <<"B", "o", "b", "@", "C", "o", "r", "p", ".", "i", "o">>
TxtBlank == <<" ", " ">>
TxtPricingUrl == <<"h", "t", "t", "p", "s", ":", "/", "/", "w", "w", "w", ".", "E", "x", "a", "m", "p", "l", "e", ".", "c", "o", "m", "/", "p", "r", "i", "c", "i", "n", "g">>
TxtBareHost == <<"e", "x", "a", "m", "p", "l", "e", ".", "c", "o", "m">>
TxtGmailHost == <<"w", "w", "w", ".", "g", "m", "a", "i", "l", ".", "c", "o", "m">>
TxtBadUrl == <<"n", "o", "t", " ", "a", " ", "u", "r", "l">>
HttpPrefix == <<"h", "t", "t", "p">>
HttpsScheme == <<"h", "t", "t", "p", "s", ":", "/", "/">>
HttpScheme == <<"h", "t", "t", "p", ":", "/", "/">>
WwwDot == <<"w", "w", "w", ".">>
UpperChars == <<"A", "B", "C", "D", "E", "F", "G", "H", "I", "J", "K", "L", "M", "N", "O", "P", "Q", "R", "S", "T", "U", "V", "W", "X", "Y", "Z">>
LowerChars == <<"a", "b", "c", "d", "e", "f", "g", "h", "i", "j", "k", "l", "m", "n", "o", "p", "q", "r", "s", "t", "u", "v", "w", "x", "y", "z">>

PERSONAL_DOMAINS ==
    { <<"g", "m", "a", "i", "l", ".", "c", "o", "m">>,
      <<"y", "a", "h", "o", "o", ".", "c", "o", "m">>,
      <<"o", "u", "t", "l", "o", "o", "k", ".", "c", "o", "m">>,
      <<"h", "o", "t", "m", "a", "i", "l", ".", "c", "o", "m">>,
      <<"i", "c", "l", "o", "u", "d", ".", "c", "o", "m">>,
      <<"a", "o", "l", ".", "c", "o", "m">>,
      <<"p", "r", "o", "t", "o", "n", ".", "m", "e">>,
      <<"p", "r", "o", "t", "o", "n", "m", "a", "i", "l", ".", "c", "o", "m">>,
      <<"l", "i", "v", "e", ".", "c", "o", "m">>,
      <<"m", "e", ".", "c", "o", "m">>,
      <<"m", "a", "i", "l", ".", "c", "o", "m">> }

(***************************************************************************)
(* String primitives (methods of String.prototype).                       *)
(***************************************************************************)
toLowerCaseChar(c) ==
    IF \E k \in 1..Len(UpperChars) : UpperChars[k] = c
    THEN LowerChars[CHOOSE k \in 1..Len(UpperChars) : UpperChars[k] = c]
    ELSE c

RECURSIVE toLowerCase(_)
toLowerCase(s) ==
    IF s = <<>> THEN <<>> ELSE <<toLowerCaseChar(Head(s))>> \o toLowerCase(Tail(s))

IsSpace(c) == c \in {" ", "\t"}

RECURSIVE trimStart(_)
trimStart(s) == IF s # <<>> /\ IsSpace(Head(s)) THEN trimStart(Tail(s)) ELSE s

RECURSIVE trimEnd(_)
trimEnd(s) ==
    IF s # <<>> /\ IsSpace(s[Len(s)]) THEN trimEnd(SubSeq(s, 1, Len(s) - 1)) ELSE s

trim(s) == trimEnd(trimStart(s))

startsWith(s, p) == Len(s) >= Len(p) /\ SubSeq(s, 1, Len(p)) = p

\* Position of the first character of s that is in the set cs; Len(s)+1 if none.
FirstIn(s, cs) ==
    IF \E k \in 1..Len(s) : s[k] \in cs
    THEN CHOOSE k \in 1..Len(s) : s[k] \in cs /\ \A j \in 1..(k - 1) : s[j] \notin cs
    ELSE Len(s) + 1

\* Position of the last character of s that is in the set cs; 0 if none.
LastIn(s, cs) ==
    IF \E k \in 1..Len(s) : s[k] \in cs
    THEN CHOOSE k \in 1..Len(s) : s[k] \in cs /\ \A j \in (k + 1)..Len(s) : s[j] \notin cs
    ELSE 0

\* s.split(c)[1] || '' : the text between the first and the second c.
SplitSecond(s, c) ==
    LET p == FirstIn(s, {c})
        rest == SubSeq(s, p + 1, Len(s))
    IN  IF p > Len(s) THEN <<>> ELSE SubSeq(rest, 1, FirstIn(rest, {c}) - 1)

(***************************************************************************)
(* JavaScript values that a form field can carry.                          *)
(***************************************************************************)
JsStr(s)  == [t |-> "string", v |-> s]
JsUndef   == [t |-> "undefined", v |-> <<>>]
JsArr(xs) == [t |-> "array", v |-> xs]
JsNum(n)  == [t |-> "number", v |-> n]

Truthy(x) ==
    CASE x.t = "string"    -> x.v # <<>>
      [] x.t = "array"     -> TRUE
      [] x.t = "undefined" -> FALSE
      [] x.t = "number"    -> x.v # 0

Field(label, value) == [label |-> label, value |-> value]

\* fields.find(f => (f.label || '').toLowerCase() === label.toLowerCase())
FindByLabelCI(fields, label) ==
    LET hit(k) == toLowerCase(IF Truthy(fields[k].label) THEN fields[k].label.v ELSE <<>>)
                      = toLowerCase(label)
    IN  IF \E k \in 1..Len(fields) : hit(k)
        THEN fields[CHOOSE k \in 1..Len(fields) : hit(k) /\ \A j \in 1..(k - 1) : ~hit(j)].value
        ELSE JsUndef

\* fields.find(f => f.label === label)
FindByLabelExact(fields, label) ==
    LET hit(k) == fields[k].label = JsStr(label)
    IN  IF \E k \in 1..Len(fields) : hit(k)
        THEN fields[CHOOSE k \in 1..Len(fields) : hit(k) /\ \A j \in 1..(k - 1) : ~hit(j)].value
        ELSE JsUndef

\* x || ''
OrEmpty(x) == IF Truthy(x) THEN x ELSE JsStr(<<>>)

\* pickField that compares the labels as they are written.
pickField_ExactCase(fields, label) == OrEmpty(FindByLabelExact(fields, label))

\* pickField of the handlers that default to '' (part_000, third and fourth
\* handler of api/tally-webhook.js)
pickField(fields, label) == OrEmpty(FindByLabelCI(fields, label))

\* Whether pickField throws: (f.label || '').toLowerCase() is a TypeError
\* on a label that is truthy and no string, and find calls it on every
\* field up to the first one it accepts.
pickFieldThrows(fields, label) ==
    LET bad(k) == Truthy(fields[k].label) /\ fields[k].label.t # "string"
        hit(k) == ~bad(k) /\ toLowerCase(IF Truthy(fields[k].label) THEN fields[k].label.v
                                          ELSE <<>>) = toLowerCase(label)
    IN  \E k \in 1..Len(fields) : bad(k) /\ \A j \in 1..(k - 1) : ~bad(j) /\ ~hit(j)

\* x.trim(): a TypeError when x is not a string.
Threw == [threw |-> TRUE, v |-> <<>>]
Ok(s) == [threw |-> FALSE, v |-> s]
TrimOf(x) == IF x.t = "string" THEN Ok(trim(x.v)) ELSE Threw

(***************************************************************************)
(* normalizeDomain: new URL(...).hostname with one leading "www." removed. *)
(* The URL parser is modelled for http(s) URLs: scheme, any number of      *)
(* slashes, optional userinfo, host, optional port, then path/query/hash.  *)
(* A host with a space, an empty host, or no scheme at all is a TypeError. *)
(***************************************************************************)
SchemeChars ==
    {LowerChars[k] : k \in 1..Len(LowerChars)} \cup {"0", "1", "2", "3", "4", "5", "6", "7", "8", "9", "+", "-", "."}

RECURSIVE SkipSlashes(_)
SkipSlashes(s) ==
    IF s # <<>> /\ Head(s) \in {"/", "\\"} THEN SkipSlashes(Tail(s)) ELSE s

\* new URL(s).hostname; Threw when the constructor throws.
UrlHostname(s) ==
    LET p      == FirstIn(s, {":"})
        scheme == toLowerCase(SubSeq(s, 1, p - 1))
        after  == SubSeq(s, p + 1, Len(s))
        rest   == SkipSlashes(after)
        auth   == SubSeq(rest, 1, FirstIn(rest, {"/", "\\", "?", "#"}) - 1)
        hp     == SubSeq(auth, LastIn(auth, {"@"}) + 1, Len(auth))
        host   == SubSeq(hp, 1, FirstIn(hp, {":"}) - 1)
    IN  IF p > Len(s) \/ scheme = <<>> \/ \E k \in 1..Len(scheme) : scheme[k] \notin SchemeChars
        THEN Threw                       \* no scheme: a relative URL without a base
        ELSE IF scheme \notin {HttpPrefix, HttpPrefix \o <<"s">>}
        THEN Ok(<<>>)                    \* another scheme, opaque path: empty hostname
        ELSE IF host = <<>> \/ \E k \in 1..Len(host) : IsSpace(host[k]) THEN Threw
        ELSE Ok(toLowerCase(host))

normalizeDomain(raw) ==
    IF raw = <<>> THEN <<>>
    ELSE LET u == UrlHostname(IF startsWith(raw, HttpPrefix) THEN raw ELSE HttpsScheme \o raw)
         IN  IF u.threw THEN <<>>
             ELSE IF startsWith(u.v, WwwDot) THEN SubSeq(u.v, Len(WwwDot) + 1, Len(u.v))
             ELSE u.v

(***************************************************************************)
(* Sample submissions: data.fields of the request body.                    *)
(***************************************************************************)
F(label, text) == Field(JsStr(label), JsStr(text))

FormFull ==
    << F(LblFullName, TxtAdaLovelace), F(LblCompanyName, TxtAcme),
       F(LblCompanyWebsite, TxtPricingUrl), F(LblEmailAddress, TxtAdaEmail) >>
FormPersonal   == << F(LblFullName, TxtJane), F(LblEmailAddress, TxtJaneEmail) >>
FormNoEmail    ==
    << F(LblFullName, TxtAda), F(LblCompanyName, TxtAcme), F(LblCompanyWebsite, TxtBareHost) >>
FormBlankEmail ==
    << F(LblFullName, TxtAda), F(LblCompanyName, TxtAcme),
       F(LblCompanyWebsite, TxtBareHost), F(LblEmailAddress, TxtBlank) >>
FormEmailOnly  == << F(LblEmailAddress, TxtBobEmail) >>
FormLowerLabel == << F(LblEmailAddressLc, TxtAdaEmail), F(LblFullName, TxtAda) >>
FormWork       ==
    << F(LblYourName, TxtAda), F(LblWorkEmail, TxtAdaEmail), F(LblCompanyWebsiteLc, TxtBareHost) >>
FormArrayName  ==
    << Field(JsStr(LblFullName), JsArr(<<TxtAda>>)), F(LblEmailAddress, TxtAdaEmail) >>
FormGmailSite  ==
    << F(LblCompanyName, TxtAcme), F(LblCompanyWebsite, TxtGmailHost),
       F(LblEmailAddress, TxtBobEmail) >>
FormBadUrl     ==
    << F(LblFullName, TxtAda), F(LblCompanyName, TxtAcme),
       F(LblCompanyWebsite, TxtBadUrl), F(LblEmailAddress, TxtAdaEmail) >>

Forms ==
    { FormFull, FormPersonal, FormNoEmail, FormBlankEmail, FormEmailOnly, FormLowerLabel,
      FormWork, FormArrayName, FormGmailSite, FormBadUrl, <<>> }

\* req.body: with data.fields a list of {label, value} objects, without
\* data.fields, or with a data.fields that is no such list: a non-empty
\* string, a plain object, or the list [null].
Malformed == {"string", "object", "nullEntry"}

Bodies == {[kind |-> "list", fields |-> f] : f \in Forms}
              \cup {[kind |-> k, fields |-> <<>>] : k \in {"absent"} \cup Malformed}

\* fields.find(f => ... f.label ...) throws a TypeError: fields has no find
\* method, or its first entry is null.
FindThrows(body) == body.kind \in Malformed

Variants ==
    {"part_000", "tw_v1", "tw_v2", "tw_v3", "tw_v4", "part_001", "part_005",
     "part_002", "part_003", "part_004"}
IdLinking   == {"part_000", "tw_v3"}
QueryCreate == {"tw_v2", "part_001", "part_005"}
Dedup       == {"part_001", "part_005"}

\* data.responseId / data.submissionId; "" when the body has none.
ExternalIds == {"", "r1"}

\* The tally-signature header.  A digest is identified by the key and the
\* message it was computed from, so two digests are equal exactly when both
\* agree; NoSignature is the absent header (headers.get returns null).
Digest(key, msg) == <<"hmac-sha256-base64", key, msg>>
NoSignature == <<>>
Signatures ==
    {NoSignature, Digest("TALLY_SIGNING_SECRET", "rawBody"),
     Digest("another key", "rawBody"), Digest("TALLY_SIGNING_SECRET", "another body")}

(***************************************************************************)
(* State.                                                                  *)
(*   h[i]   the i-th invocation of the handler: its request, the position  *)
(*          it is suspended at, its local variables, the outbound calls it *)
(*          issued so far (the last one is in flight while pc names a      *)
(*          call), and the response it sent (status 0: none yet)           *)
(*   token  whether process.env.ATTIO_TOKEN is set                         *)
(*   secret whether process.env.TALLY_SIGNING_SECRET is set                *)
(*   crm    the records of the remote workspace                            *)
(*   crmUnique  whether the workspace rejects a create whose unique        *)
(*          attribute value already exists                                 *)
(*   overlap    whether deliveries may be handled concurrently             *)
(*   answers    the outcomes the network and the workspace can produce for *)
(*          a write call                                                   *)
(*   calc       a helper function of part_000 applied outside a handler:   *)
(*          its name, its argument and, once applied, its result           *)
(***************************************************************************)
VARIABLES h, token, secret, crm, crmUnique, overlap, answers, calc

vars == <<h, token, secret, crm, crmUnique, overlap, answers, calc>>

Invocations == 1..MaxDeliveries

\* calc: a helper function applied on its own (op, argument, result).
NoCalc == [op |-> "none", arg |-> <<>>, out |-> <<>>, done |-> FALSE]

NoOutcome == [kind |-> "pending", status |-> 0, body |-> "none", applied |-> FALSE]

NoBody == [personId |-> "", companyId |-> "", detail |-> "none"]

Call(target, op, key, personLink, companyLink, ext) ==
    [target |-> target, op |-> op, key |-> key, personLink |-> personLink,
     companyLink |-> companyLink, ext |-> ext, outcome |-> NoOutcome]

Fresh(variant, req) ==
    [variant |-> variant, req |-> req, pc |-> "idle",
     fullName |-> <<>>, email |-> <<>>, companyName |-> <<>>, domain |-> <<>>,
     personId |-> "", companyId |-> "", ext |-> "", deal |-> "none",
     calls |-> <<>>, status |-> 0, body |-> NoBody]

\* The handler issues an outbound call and is suspended at `await`.
Issue(r, call, pc) == [r EXCEPT !.pc = pc, !.calls = Append(@, call)]

\* The handler sends its response and returns.
Reply(r, status, body) == [r EXCEPT !.pc = "done", !.status = status, !.body = body]

\* The call in flight has returned with outcome out.
Returned(r, out) == [r EXCEPT !.calls[Len(r.calls)].outcome = out]

InFlight(r) == r.calls[Len(r.calls)]

(***************************************************************************)
(* The remote CRM (Attio).  What a call can come back with:                *)
(*   response, 2xx, body one of                                            *)
(*     "id"      JSON with a string record id where the handler looks      *)
(*     "noid"    JSON with data but no string id                           *)
(*     "nodata"  JSON without data                                         *)
(*     "nonjson" text that is not JSON                                     *)
(*     "hit" / "miss"  a query's data list, non-empty / empty              *)
(*   response, non-2xx (400 schema validation, 401 auth, 429 rate limit,   *)
(*     500 server error), body "error"                                     *)
(*   response whose body stream fails while it is read: body "unreadable"  *)
(*   throw: fetch rejects (network failure); the request may or may not    *)
(*     have reached the workspace                                          *)
(***************************************************************************)
RejectStatuses == {400, 401, 429, 500}

Response(status, body) ==
    [kind |-> "response", status |-> status, body |-> body,
     applied |-> (status = 200)]

Thrown(applied) == [kind |-> "throw", status |-> 0, body |-> "none", applied |-> applied]

\* resp.ok
IsOk(out) == out.kind = "response" /\ out.status = 200

AllAnswers ==
    {Response(200, b) : b \in {"id", "noid", "nodata", "nonjson", "unreadable"}}
        \cup {Response(s, "error") : s \in RejectStatuses}
        \cup {Response(500, "unreadable")}
        \cup {Thrown(a) : a \in BOOLEAN}

KeyExists(c, call) ==
    CASE call.target = "person"  -> \E k \in 1..Len(c.people) : c.people[k] = call.key
      [] call.target = "company" -> \E k \in 1..Len(c.companies) : c.companies[k] = call.key
      [] call.target = "deal"    ->
            call.ext # "" /\ \E k \in 1..Len(c.deals) : c.deals[k].ext = call.ext

\* The outcomes the workspace can produce for a call, in its current state,
\* out of the outcomes as.  A query answers from the records the workspace
\* holds at that moment, or fails; a create of an existing key is rejected
\* when the workspace enforces uniqueness.
CrmOutcomes(c, unique, as, call) ==
    CASE call.op = "query" ->
            {Response(200, IF KeyExists(c, call) THEN "hit" ELSE "miss")}
                \cup {o \in as : o.body \in {"error", "unreadable", "none"} /\ o # Thrown(TRUE)}
      [] call.op = "attributes" ->
            {Response(200, b) : b \in {"options", "stage", "nostage"}}
                \cup {o \in as : ~IsOk(o) \/ o.body \in {"nonjson", "unreadable"}}
      [] call.op = "create" /\ unique /\ KeyExists(c, call) ->
            {Response(400, "error")} \cup (as \cap {Thrown(FALSE)})
      [] OTHER -> as

\* The workspace after a call it applied: an upsert (PUT with
\* matching_attribute) adds a record only when the key is new, a create
\* (POST) always adds one.
CrmApply(c, call, out) ==
    IF \/ ~out.applied
       \/ call.op \in {"query", "update", "attributes", "attribute"}
       \/ (call.op = "upsert" /\ KeyExists(c, call))
    THEN c
    ELSE CASE call.target = "person"  -> [c EXCEPT !.people = Append(@, call.key)]
           [] call.target = "company" -> [c EXCEPT !.companies = Append(@, call.key)]
           [] call.target = "deal"    ->
                [c EXCEPT !.deals = Append(@, [ext |-> call.ext, personLink |-> call.personLink,
                                               companyLink |-> call.companyLink])]

EmptyCrm == [people |-> <<>>, companies |-> <<>>, deals |-> <<>>]

(***************************************************************************)
(* Handlers that link by record id: part_000 (lines 171-309) and the third *)
(* handler of api/tally-webhook.js (lines 427-542).  The two differ only   *)
(* in the Person create fallback of the latter.                            *)
(***************************************************************************)
\* extractRecordId / getId on the parsed body of a 2xx response: the id,
\* or null (written "").
extractRecordId(body) == IF body = "id" THEN "rec" ELSE ""

\* The four trimmed inputs; threw when a picked value is not a string.
TrimmedInputs(fields) ==
    LET fn == TrimOf(pickField(fields, LblFullName))
        cn == TrimOf(pickField(fields, LblCompanyName))
        ws == TrimOf(pickField(fields, LblCompanyWebsite))
        em == TrimOf(pickField(fields, LblEmailAddress))
    IN  [threw |-> fn.threw \/ cn.threw \/ ws.threw \/ em.threw,
         fullName |-> fn.v, companyName |-> cn.v, website |-> ws.v, email |-> em.v]

\* ResolveDomain that falls back to the email's domain a second time, when
\* the website's domain is a personal one.
ResolveDomain_SecondFallback(website, email) ==
    LET emailDomain == toLowerCase(SplitSecond(email, "@"))
        site == normalizeDomain(website)
        domain == IF site # <<>> /\ site \notin PERSONAL_DOMAINS THEN site ELSE emailDomain
    IN  IF domain \in PERSONAL_DOMAINS THEN <<>> ELSE domain

\* ResolveDomain without the denylist.
ResolveDomain_NoDenylist(website, email) ==
    IF normalizeDomain(website) # <<>> THEN normalizeDomain(website)
    ELSE toLowerCase(SplitSecond(email, "@"))

\* normalizeDomain(website) || emailDomain, emptied for a personal domain.
ResolveDomain(website, email) ==
    LET emailDomain == toLowerCase(SplitSecond(email, "@"))
        domain == IF normalizeDomain(website) # <<>> THEN normalizeDomain(website)
                  ELSE emailDomain
    IN  IF domain \in PERSONAL_DOMAINS THEN <<>> ELSE domain

CompanyUpsert(domain) == Call("company", "upsert", domain, "n/a", "n/a", "")
PersonUpsert(email)   == Call("person", "upsert", email, "n/a", "n/a", "")
PersonCreate(email)   == Call("person", "create", email, "n/a", "n/a", "")

\* associated_people of the Deal payload
\* PersonLink that always links by record id.
PersonLink_AlwaysById(personId) == "record_id"

PersonLink(personId) == IF personId # "" THEN "record_id" ELSE "email"

\* CompanyLink without the fallback by domain.
CompanyLink_ByIdOnly(domain, companyId) == IF domain = <<>> THEN "none" ELSE "record_id"

\* associated_company of the Deal payload ("none": the key is not set)
CompanyLink(domain, companyId) ==
    IF domain = <<>> THEN "none"
    ELSE IF companyId # "" THEN "record_id" ELSE "domain"

DealCreate(key, personLink, companyLink, ext) ==
    Call("deal", "create", key, personLink, companyLink, ext)

\* fetch rejected, or reading the body (resp.text()) rejected: the catch block.
\* Uncaught that takes a body that cannot be read for a readable one.
Uncaught_OnlyThrow(out) == out.kind = "throw"

Uncaught(out) == out.kind = "throw" \/ out.body = "unreadable"

\* IdLinkStart that upserts the Person before the Company.
IdLinkStart_PersonFirst(r, tok) ==
    IF r.req.method # "POST" THEN Reply(r, 405, NoBody)
    ELSE IF ~tok THEN Reply(r, 500, NoBody)
    ELSE IF FindThrows(r.req.body) THEN Reply(r, 500, NoBody)
    ELSE LET inp == TrimmedInputs(r.req.body.fields)
             d  == ResolveDomain(inp.website, inp.email)
             r1 == [r EXCEPT !.fullName = inp.fullName, !.email = inp.email,
                             !.companyName = inp.companyName, !.domain = d]
         IN  IF inp.threw THEN Reply(r, 500, NoBody)
             ELSE IF inp.email = <<>> THEN Reply(r, 400, NoBody)
             ELSE Issue(Issue(r1, PersonUpsert(inp.email), "person"),
                        CompanyUpsert(d), "company")

\* IdLinkStart that reads the fields and requires the email before it
\* looks at the token.
IdLinkStart_EmailFirst(r, tok) ==
    IF r.req.method # "POST" THEN Reply(r, 405, NoBody)
    ELSE IF FindThrows(r.req.body) THEN Reply(r, 500, NoBody)
    ELSE LET inp == TrimmedInputs(r.req.body.fields)
             d  == ResolveDomain(inp.website, inp.email)
             r1 == [r EXCEPT !.fullName = inp.fullName, !.email = inp.email,
                             !.companyName = inp.companyName, !.domain = d]
         IN  IF inp.threw THEN Reply(r, 500, NoBody)
             ELSE IF inp.email = <<>> THEN Reply(r, 400, NoBody)
             ELSE IF ~tok THEN Reply(r, 500, NoBody)
             ELSE IF d # <<>> THEN Issue(r1, CompanyUpsert(d), "company")
             ELSE Issue(r1, PersonUpsert(inp.email), "person")

\* IdLinkStart without the token check of lines 176-179.
IdLinkStart_NoTokenCheck(r, tok) ==
    IF r.req.method # "POST" THEN Reply(r, 405, NoBody)
    ELSE IF FindThrows(r.req.body) THEN Reply(r, 500, NoBody)
    ELSE LET inp == TrimmedInputs(r.req.body.fields)
             d  == ResolveDomain(inp.website, inp.email)
             r1 == [r EXCEPT !.fullName = inp.fullName, !.email = inp.email,
                             !.companyName = inp.companyName, !.domain = d]
         IN  IF inp.threw THEN Reply(r, 500, NoBody)
             ELSE IF inp.email = <<>> THEN Reply(r, 400, NoBody)
             ELSE IF d # <<>> THEN Issue(r1, CompanyUpsert(d), "company")
             ELSE Issue(r1, PersonUpsert(inp.email), "person")

\* Lines 172-224 up to the first await.
IdLinkStart(r, tok) ==
    IF r.req.method # "POST" THEN Reply(r, 405, NoBody)
    ELSE IF ~tok THEN Reply(r, 500, NoBody)
    ELSE IF FindThrows(r.req.body) THEN Reply(r, 500, NoBody)
    ELSE LET inp == TrimmedInputs(r.req.body.fields)
             d  == ResolveDomain(inp.website, inp.email)
             r1 == [r EXCEPT !.fullName = inp.fullName, !.email = inp.email,
                             !.companyName = inp.companyName, !.domain = d]
         IN  IF inp.threw THEN Reply(r, 500, NoBody)
             ELSE IF inp.email = <<>> THEN Reply(r, 400, NoBody)
             ELSE IF d # <<>> THEN Issue(r1, CompanyUpsert(d), "company")
             ELSE Issue(r1, PersonUpsert(inp.email), "person")

\* if (cResp.ok) companyId = extractRecordId(cJson)
CompanyIdOf(out) == IF IsOk(out) THEN extractRecordId(out.body) ELSE ""

IdLinkDeal(r) ==
    DealCreate(r.email, PersonLink(r.personId), CompanyLink(r.domain, r.companyId), "")

\* IdLinkAfterCompany with every failure of the Company upsert fatal.
IdLinkAfterCompany_Fatal(r, out) ==
    IF Uncaught(out) THEN Reply(r, 500, NoBody)
    ELSE IF ~IsOk(out) THEN Reply(r, 502, [NoBody EXCEPT !.detail = "company"])
    ELSE Issue([r EXCEPT !.companyId = CompanyIdOf(out)], PersonUpsert(r.email), "person")

\* Lines 220-244: the Company upsert has returned.
IdLinkAfterCompany(r, out) ==
    IF Uncaught(out) THEN Reply(r, 500, NoBody)
    ELSE Issue([r EXCEPT !.companyId = CompanyIdOf(out)], PersonUpsert(r.email), "person")

\* IdLinkPersonRejected that goes on to the Deal.
IdLinkPersonRejected_GoesOn(r) == Issue(r, IdLinkDeal(r), "deal")

\* What a rejected Person upsert leads to: 502, or the create fallback.
IdLinkPersonRejected(r) ==
    IF r.variant = "tw_v3" THEN Issue(r, PersonCreate(r.email), "personCreate")
    ELSE Reply(r, 502, [NoBody EXCEPT !.detail = "people"])

\* Lines 245-296: the Person upsert has returned.
IdLinkAfterPerson(r, out) ==
    IF Uncaught(out) THEN Reply(r, 500, NoBody)
    ELSE IF ~IsOk(out) THEN IdLinkPersonRejected(r)
    ELSE LET r1 == [r EXCEPT !.personId = extractRecordId(out.body)]
         IN  Issue(r1, IdLinkDeal(r1), "deal")

\* api/tally-webhook.js lines 505-532: the fallback create has returned.
IdLinkAfterPersonCreate(r, out) ==
    IF Uncaught(out) THEN Reply(r, 500, NoBody)
    ELSE IF ~IsOk(out) THEN Reply(r, 502, [NoBody EXCEPT !.detail = "people"])
    ELSE LET r1 == [r EXCEPT !.personId = extractRecordId(out.body)]
         IN  Issue(r1, IdLinkDeal(r1), "deal")

\* IdLinkAfterDeal that tries a rejected Deal creation a second time.
IdLinkAfterDeal_TriesAgain(r, out) ==
    IF Uncaught(out) THEN Reply(r, 500, NoBody)
    ELSE IF ~IsOk(out) /\ Len(r.calls) < 4 THEN Issue(r, IdLinkDeal(r), "deal")
    ELSE IF ~IsOk(out) THEN Reply(r, 502, [NoBody EXCEPT !.detail = "deal"])
    ELSE Reply(r, 200, [personId |-> r.personId, companyId |-> r.companyId, detail |-> "ok"])

\* Lines 297-308: the Deal creation has returned.
IdLinkAfterDeal(r, out) ==
    IF Uncaught(out) THEN Reply(r, 500, NoBody)
    ELSE IF ~IsOk(out) THEN Reply(r, 502, [NoBody EXCEPT !.detail = "deal"])
    ELSE Reply(r, 200, [personId |-> r.personId, companyId |-> r.companyId, detail |-> "ok"])

(***************************************************************************)
(* First handler of api/tally-webhook.js (lines 26-134): Person upsert,    *)
(* then Deal, both linked by natural key.                                  *)
(***************************************************************************)
\* (pickField(a) || pickField(b) || '').trim()
PickEither(fields, a, b) ==
    TrimOf(IF Truthy(FindByLabelCI(fields, a)) THEN FindByLabelCI(fields, a)
           ELSE OrEmpty(FindByLabelCI(fields, b)))

V1Inputs(fields) ==
    LET fn == TrimOf(OrEmpty(FindByLabelCI(fields, LblYourName)))
        em == PickEither(fields, LblWorkEmail, LblWorkEmailLc)
        ws == PickEither(fields, LblCompanyWebsite, LblCompanyWebsiteLc)
    IN  [threw |-> fn.threw \/ em.threw \/ ws.threw,
         fullName |-> fn.v, website |-> ws.v, email |-> em.v]

\* normalizeDomain(website) || (email.split('@')[1] || '')
V1Domain(website, email) ==
    IF normalizeDomain(website) # <<>> THEN normalizeDomain(website)
    ELSE SplitSecond(email, "@")

\* Lines 27-91.
V1Start(r, tok) ==
    IF r.req.method # "POST" THEN Reply(r, 405, NoBody)
    ELSE IF FindThrows(r.req.body) THEN Reply(r, 500, NoBody)
    ELSE LET inp == V1Inputs(r.req.body.fields)
             r1 == [r EXCEPT !.fullName = inp.fullName, !.email = inp.email,
                             !.domain = V1Domain(inp.website, inp.email)]
         IN  IF inp.threw THEN Reply(r, 500, NoBody)
             ELSE IF inp.email = <<>> THEN Reply(r, 400, NoBody)
             ELSE IF ~tok THEN Reply(r, 500, NoBody)
             ELSE Issue(r1, PersonUpsert(inp.email), "person")

\* if (!resp.ok) { const err = await resp.text(); return 502 }
V1Rejected(r, out, what) ==
    IF out.body = "unreadable" THEN Reply(r, 500, NoBody)
    ELSE Reply(r, 502, [NoBody EXCEPT !.detail = what])

\* Lines 93-121.
V1AfterPerson(r, out) ==
    IF out.kind = "throw" THEN Reply(r, 500, NoBody)
    ELSE IF ~IsOk(out) THEN V1Rejected(r, out, "people")
    ELSE Issue(r, DealCreate(r.email, "email",
                             IF r.domain # <<>> THEN "domain" ELSE "none", ""), "deal")

\* Lines 123-133.
V1AfterDeal(r, out) ==
    IF out.kind = "throw" THEN Reply(r, 500, NoBody)
    ELSE IF ~IsOk(out) THEN V1Rejected(r, out, "deal")
    ELSE Reply(r, 200, [NoBody EXCEPT !.detail = "ok"])

(***************************************************************************)
(* Fourth handler of api/tally-webhook.js (lines 578-674): Person, Company *)
(* and Deal calls whose responses are awaited but never looked at.         *)
(***************************************************************************)
\* Lines 579-625.
V4Start(r) ==
    IF r.req.method # "POST" THEN Reply(r, 405, NoBody)
    ELSE IF FindThrows(r.req.body) THEN Reply(r, 500, NoBody)
    ELSE LET inp == TrimmedInputs(r.req.body.fields)
             r1 == [r EXCEPT !.fullName = inp.fullName, !.email = inp.email,
                             !.companyName = inp.companyName,
                             !.domain = ResolveDomain(inp.website, inp.email)]
         IN  IF inp.threw THEN Reply(r, 500, NoBody)
             ELSE Issue(r1, PersonUpsert(inp.email), "person")

V4Deal(r) ==
    DealCreate(r.email, "email", IF r.domain # <<>> THEN "domain" ELSE "none", "")

\* Lines 611-668: the Person call has returned.
V4AfterPerson(r, out) ==
    IF out.kind = "throw" THEN Reply(r, 500, NoBody)
    ELSE IF r.domain # <<>> THEN Issue(r, CompanyUpsert(r.domain), "company")
    ELSE Issue(r, V4Deal(r), "deal")

\* Lines 630-668: the Company call has returned.
V4AfterCompany(r, out) ==
    IF out.kind = "throw" THEN Reply(r, 500, NoBody) ELSE Issue(r, V4Deal(r), "deal")

\* Lines 661-674: the Deal call has returned.
V4AfterDeal(r, out) ==
    IF out.kind = "throw" THEN Reply(r, 500, NoBody)
    ELSE Reply(r, 200, [NoBody EXCEPT !.detail = "ok"])

(***************************************************************************)
(* Query-then-create handlers: second handler of api/tally-webhook.js      *)
(* (lines 161-370), part_001 and part_005.  part_001 and part_005          *)
(* deduplicate Deals by external_source_id.  Every Attio call goes through *)
(* attioApiRequest, which throws on a non-2xx answer.                      *)
(***************************************************************************)
\* getField: the value of the first field whose label is exactly `label`
getField(fields, label) == FindByLabelExact(fields, label)

\* s.replace('www.', ''): the first occurrence, wherever it is
RECURSIVE replaceFirst(_, _)
replaceFirst(s, p) ==
    IF Len(s) < Len(p) THEN s
    ELSE IF startsWith(s, p) THEN SubSeq(s, Len(p) + 1, Len(s))
    ELSE <<Head(s)>> \o replaceFirst(Tail(s), p)

QcInputs(variant, fields) ==
    LET fn == getField(fields, LblFullName)
        em == getField(fields, LblEmailAddress)
        cn == getField(fields, LblCompanyName)
        ws == getField(fields, LblCompanyWebsite)
        url == UrlHostname(IF startsWith(ws.v, HttpPrefix) THEN ws.v ELSE HttpsScheme \o ws.v)
    IN  [missing |-> ~Truthy(em) \/ ~Truthy(cn) \/ ~Truthy(ws)
                        \/ (variant = "tw_v2" /\ ~Truthy(fn)),
         threw   |-> (Truthy(fn) /\ fn.t # "string") \/ ws.t # "string" \/ url.threw,
         email   |-> em.v, companyName |-> cn.v,
         domain  |-> IF variant = "tw_v2" THEN replaceFirst(url.v, WwwDot)
                     ELSE IF startsWith(url.v, WwwDot)
                          THEN SubSeq(url.v, Len(WwwDot) + 1, Len(url.v))
                     ELSE url.v]

\* ExternalId that never falls back to the submission id.
ExternalId_ResponseOnly(req) == req.responseId

\* payload.data.responseId || payload.data.submissionId || null
ExternalId(req) == IF req.responseId # "" THEN req.responseId ELSE req.submissionId

Query(target, key, ext) == Call(target, "query", key, "n/a", "n/a", ext)

\* The handler's catch block (part_001 lines 215-218).
QcCatch(r) == Reply(r, 500, [NoBody EXCEPT !.detail = "message"])

\* The catch block when attioApiRequest threw on outcome out.  part_005
\* (lines 206-218) adds attio_error when the request carries the debug flag
\* and the error has details: the JSON body of a non-2xx answer.
QcCatchApi(r, out) ==
    IF /\ r.variant = "part_005" /\ r.req.debug
       /\ out.kind = "response" /\ ~IsOk(out) /\ out.body = "error"
    THEN Reply(r, 500, [NoBody EXCEPT !.detail = "message+attio_error"])
    ELSE QcCatch(r)

\* Handler entry up to the first await (part_001 lines 164-205 and 36-45).
QcStart(r) ==
    IF r.req.method # "POST" THEN Reply(r, 405, NoBody)
    ELSE IF r.req.body.kind = "absent" THEN Reply(r, 400, NoBody)
    ELSE IF FindThrows(r.req.body) THEN QcCatch(r)
    ELSE LET inp == QcInputs(r.variant, r.req.body.fields)
             r1 == [r EXCEPT !.email = inp.email, !.companyName = inp.companyName,
                             !.domain = inp.domain]
         IN  IF inp.missing THEN Reply(r, 400, NoBody)
             ELSE IF inp.threw THEN Reply(r, 500, [NoBody EXCEPT !.detail = "message"])
             ELSE Issue(r1, Query("person", inp.email, ""), "personQuery")

\* attioApiRequest (part_001 lines 14-33) throws when fetch rejects, when the
\* answer is not 2xx, and when the 2xx body is not readable JSON.
ApiThrows(out) == ~IsOk(out) \/ out.body \in {"nonjson", "unreadable"}

\* created.data is returned and its id read: a TypeError without data.
CreateThrows(out) == ApiThrows(out) \/ out.body = "nodata"

\* QcAfterPersonQuery that creates the Person whatever the query found.
QcAfterPersonQuery_AlwaysCreates(r, out) ==
    IF ApiThrows(out) THEN QcCatchApi(r, out)
    ELSE Issue(r, PersonCreate(r.email), "personCreate")

\* findOrCreatePerson, after the query (part_001 lines 47-62).
QcAfterPersonQuery(r, out) ==
    IF ApiThrows(out) THEN QcCatchApi(r, out)
    ELSE IF out.body = "hit"
    THEN Issue([r EXCEPT !.personId = "rec"], Query("company", r.domain, ""), "companyQuery")
    ELSE Issue(r, PersonCreate(r.email), "personCreate")

\* findOrCreatePerson, after the create (part_001 lines 63-64); then
\* findOrCreateCompany starts (lines 206, 68-77).
QcAfterPersonCreate(r, out) ==
    IF CreateThrows(out) THEN QcCatchApi(r, out)
    ELSE Issue([r EXCEPT !.personId = "rec"], Query("company", r.domain, ""), "companyQuery")

\* The deal creation call of createDeal (part_001 lines 122-158).
QcDeal(r, ext) == DealCreate(r.email, "record_id", "record_id", ext)

\* QcCreateDeal without the existence query.
QcCreateDeal_NoQuery(r) ==
    LET ext == IF r.variant \in Dedup THEN ExternalId(r.req) ELSE ""
        r1  == [r EXCEPT !.ext = ext]
    IN  Issue(r1, QcDeal(r1, ext), "dealCreate")

\* After the Company is resolved: the external id is chosen (lines 208-211)
\* and createDeal runs up to its first await (lines 104-115, or 122-158
\* when there is no external id).
QcCreateDeal(r) ==
    LET ext == IF r.variant \in Dedup THEN ExternalId(r.req) ELSE ""
        r1  == [r EXCEPT !.ext = ext]
    IN  IF ext # "" THEN Issue(r1, Query("deal", r.email, ext), "dealQuery")
        ELSE Issue(r1, QcDeal(r1, ""), "dealCreate")

\* findOrCreateCompany, after the query (part_001 lines 79-93).
QcAfterCompanyQuery(r, out) ==
    IF ApiThrows(out) THEN QcCatchApi(r, out)
    ELSE IF out.body = "hit" THEN QcCreateDeal([r EXCEPT !.companyId = "rec"])
    ELSE Issue(r, Call("company", "create", r.domain, "n/a", "n/a", ""), "companyCreate")

\* findOrCreateCompany, after the create (part_001 lines 94-95).
QcAfterCompanyCreate(r, out) ==
    IF CreateThrows(out) THEN QcCatchApi(r, out)
    ELSE QcCreateDeal([r EXCEPT !.companyId = "rec"])

\* DealExists that never finds a Deal.
DealExists_Never(out) == FALSE

\* if (existing?.data?.length) return existing.data[0]
DealExists(out) == out.body = "hit"

\* QcAfterDealQuery that creates the Deal whatever the query found.
QcAfterDealQuery_AlwaysCreates(r, out) ==
    IF ApiThrows(out) THEN QcCatchApi(r, out)
    ELSE Issue(r, QcDeal(r, r.ext), "dealCreate")

\* createDeal, after the existence query (part_001 lines 116-158): the first
\* record found is returned (deal = "existing.data[0]") and the handler
\* responds, or the Deal is created.
QcAfterDealQuery(r, out) ==
    IF ApiThrows(out) THEN QcCatchApi(r, out)
    ELSE IF DealExists(out)
    THEN Reply([r EXCEPT !.deal = "existing.data[0]"], 200, [NoBody EXCEPT !.detail = "ok"])
    ELSE Issue(r, QcDeal(r, r.ext), "dealCreate")

\* createDeal, after the create, and the handler's end (lines 159-160, 213-214).
QcAfterDealCreate(r, out) ==
    IF CreateThrows(out) THEN QcCatchApi(r, out)
    ELSE Reply([r EXCEPT !.deal = "created.data"], 200, [NoBody EXCEPT !.detail = "ok"])

(***************************************************************************)
(* part_002 (lines 21-128): a Web API handler that verifies the Tally      *)
(* signature, parses the raw body itself, upserts the Person and creates   *)
(* the Deal.  It has no try/catch: an exception rejects the promise the    *)
(* handler returned, the handler builds no Response, and the function      *)
(* runtime named in line 2 (a Vercel serverless function) answers the      *)
(* request itself with its 500 failure page.                               *)
(***************************************************************************)
\* verifyTallySignature with the comparison turned around.
verifyTallySignature_Inverted(sec, received) ==
    IF ~sec THEN TRUE
    ELSE received # Digest("TALLY_SIGNING_SECRET", "rawBody")

\* verifyTallySignature (lines 12-19): true without a secret, else whether
\* the header equals the digest of the raw body under the secret.
verifyTallySignature(sec, received) ==
    IF ~sec THEN TRUE
    ELSE received = Digest("TALLY_SIGNING_SECRET", "rawBody")

\* An exception nothing catches: the invocation is over and the answer is
\* the runtime's 500.
Crash(r) == Reply(r, 500, [NoBody EXCEPT !.detail = "runtime"])

\* P2Start that parses the body and reads the email before it verifies the
\* signature.
P2Start_ParsesFirst(r, sec) ==
    IF r.req.method # "POST" THEN Reply(r, 405, NoBody)
    ELSE IF r.req.body.kind = "badjson" THEN Reply(r, 400, NoBody)
    ELSE IF FindThrows(r.req.body) THEN Crash(r)
    ELSE LET inp == V1Inputs(r.req.body.fields)
             r1 == [r EXCEPT !.fullName = inp.fullName, !.email = inp.email,
                             !.domain = V1Domain(inp.website, inp.email)]
         IN  IF inp.threw THEN Crash(r)
             ELSE IF inp.email = <<>> THEN Reply(r, 400, NoBody)
             ELSE IF ~verifyTallySignature(sec, r.req.signature) THEN Reply(r, 401, NoBody)
             ELSE Issue(r1, PersonUpsert(inp.email), "person")

\* Lines 21-91: up to the Person upsert.
P2Start(r, sec) ==
    IF r.req.method # "POST" THEN Reply(r, 405, NoBody)
    ELSE IF ~verifyTallySignature(sec, r.req.signature) THEN Reply(r, 401, NoBody)
    ELSE IF r.req.body.kind = "badjson" THEN Reply(r, 400, NoBody)
    ELSE IF FindThrows(r.req.body) THEN Crash(r)
    ELSE LET inp == V1Inputs(r.req.body.fields)
             r1 == [r EXCEPT !.fullName = inp.fullName, !.email = inp.email,
                             !.domain = V1Domain(inp.website, inp.email)]
         IN  IF inp.threw THEN Crash(r)
             ELSE IF inp.email = <<>> THEN Reply(r, 400, NoBody)
             ELSE Issue(r1, PersonUpsert(inp.email), "person")

\* if (!resp.ok) { const err = await resp.text(); return 502 }
P2Rejected(r, out, what) ==
    IF out.body = "unreadable" THEN Crash(r)
    ELSE Reply(r, 502, [NoBody EXCEPT !.detail = what])

\* Lines 93-117: the Person upsert has returned.
P2AfterPerson(r, out) ==
    IF out.kind = "throw" THEN Crash(r)
    ELSE IF ~IsOk(out) THEN P2Rejected(r, out, "people")
    ELSE Issue(r, DealCreate(r.email, "email",
                             IF r.domain # <<>> THEN "domain" ELSE "none", ""), "deal")

\* Lines 119-127: the Deal creation has returned.
P2AfterDeal(r, out) ==
    IF out.kind = "throw" THEN Crash(r)
    ELSE IF ~IsOk(out) THEN P2Rejected(r, out, "deal")
    ELSE Reply(r, 200, [NoBody EXCEPT !.detail = "ok"])

(***************************************************************************)
(* part_003, first handler (lines 4-30): a smoke test that logs the        *)
(* request and calls nothing.                                              *)
(***************************************************************************)
\* fields.map(f => ({label: f.label, value: f.value})) throws on a
\* data.fields that is no list of objects; the catch block answers 500.
SmokeStart(r) ==
    IF r.req.method # "POST" THEN Reply(r, 405, NoBody)
    ELSE IF FindThrows(r.req.body) THEN Reply(r, 500, NoBody)
    ELSE Reply(r, 200, [NoBody EXCEPT !.detail = "ok"])

(***************************************************************************)
(* part_004 (lines 257-327): create-then-search upserts.  upsertPerson and *)
(* upsertCompany POST the record and, when that is refused, search it and  *)
(* PATCH what they find; getDealStageOptionIdByName reads the attributes   *)
(* of the Deal object; createDeal links by record id only.  Everything     *)
(* that throws ends in the handler's catch block: 500.                     *)
(***************************************************************************)
\* v.filter(Boolean).join(' ')
RECURSIVE joinWords(_)
joinWords(xs) ==
    IF xs = <<>> THEN <<>>
    ELSE IF Head(xs) = <<>> THEN joinWords(Tail(xs))
    ELSE IF joinWords(Tail(xs)) = <<>> THEN Head(xs)
    ELSE Head(xs) \o <<" ">> \o joinWords(Tail(xs))

\* ensureString (lines 27-31)
ensureString(x) ==
    CASE x.t = "array"     -> trim(joinWords(x.v))
      [] x.t = "string"    -> trim(x.v)
      [] x.t = "undefined" -> <<>>

\* The field reads of the handler (lines 268-276); pickByLabel has no default.
P4Inputs(fields) ==
    LET em == IF Truthy(FindByLabelCI(fields, LblEmailAddress))
              THEN FindByLabelCI(fields, LblEmailAddress)
              ELSE FindByLabelCI(fields, LblWorkEmail)
    IN  [fullName    |-> ensureString(FindByLabelCI(fields, LblFullName)),
         email       |-> toLowerCase(ensureString(em)),
         companyName |-> ensureString(FindByLabelCI(fields, LblCompanyName)),
         website     |-> ensureString(FindByLabelCI(fields, LblCompanyWebsite))]

\* The handler's catch block (lines 323-326).
P4Catch(r) == Reply(r, 500, NoBody)

\* P4Start without the method check of lines 258-261.
P4Start_AnyMethod(r) ==
    IF FindThrows(r.req.body) THEN P4Catch(r)
    ELSE LET inp == P4Inputs(r.req.body.fields)
             r1  == [r EXCEPT !.fullName = inp.fullName, !.email = inp.email,
                              !.companyName = inp.companyName,
                              !.domain = normalizeDomain(inp.website)]
         IN  Issue(r1, Call("person", "create", inp.email, "n/a", "n/a", ""), "personCreate")

\* Lines 257-292: up to the POST of upsertPerson.  The website is kept in
\* r.domain already normalised (line 101 does it before its first use).
P4Start(r) ==
    IF r.req.method # "POST" THEN Reply(r, 405, NoBody)
    ELSE IF FindThrows(r.req.body) THEN P4Catch(r)
    ELSE LET inp == P4Inputs(r.req.body.fields)
             r1  == [r EXCEPT !.fullName = inp.fullName, !.email = inp.email,
                              !.companyName = inp.companyName,
                              !.domain = normalizeDomain(inp.website)]
         IN  Issue(r1, Call("person", "create", inp.email, "n/a", "n/a", ""), "personCreate")

\* (await res.json()).data.id of a 2xx answer throws: the body is not
\* readable JSON, or has no data.
P4IdThrows(out) == out.body \in {"nonjson", "unreadable", "nodata"}

\* createDeal (lines 207-240): the links of the payload.
P4Deal(r) ==
    DealCreate(r.email, IF r.personId # "" THEN "record_id" ELSE "none",
               IF r.companyId # "" THEN "record_id" ELSE "none", "")

\* getDealStageOptionIdByName up to its first call (lines 171-173).
P4Stage(r) == Issue(r, Call("stage", "attributes", <<>>, "n/a", "n/a", ""), "attributes")

\* upsertCompany up to its first call (lines 100-120 and 149-160).
P4Company(r) ==
    IF r.domain = <<>> /\ r.companyName = <<>> THEN P4Stage(r)
    ELSE IF r.domain # <<>>
    THEN Issue(r, Call("company", "create", r.domain, "n/a", "n/a", ""), "companyCreate")
    ELSE Issue(r, Call("company", "create", r.companyName, "n/a", "n/a", ""), "companyByName")

(***************************************************************************)
(* splitName (part_000 lines 129-135, api/tally-webhook.js lines 387-393). *)
(***************************************************************************)
Dash == <<"-">>

NonEmpty(x) == x # <<>>

\* s.split(/\s+/): the pieces of s between its maximal runs of white space.
RECURSIVE splitWs(_)
splitWs(s) ==
    IF \A k \in 1..Len(s) : ~IsSpace(s[k]) THEN <<s>>
    ELSE LET i == CHOOSE k \in 1..Len(s) :
                      IsSpace(s[k]) /\ \A m \in 1..(k - 1) : ~IsSpace(s[m])
         IN  <<SubSeq(s, 1, i - 1)>> \o splitWs(trimStart(SubSeq(s, i, Len(s))))

\* splitName that joins the remaining tokens and has no placeholder for an
\* empty rest.
splitName_NoPlaceholder(full) ==
    LET parts == SelectSeq(splitWs(trim(full)), NonEmpty)
    IN  IF parts = <<>> THEN [first |-> Dash, last |-> Dash]
        ELSE [first |-> Head(parts), last |-> joinWords(Tail(parts))]

splitName(full) ==
    LET parts == SelectSeq(splitWs(trim(full)), NonEmpty)
    IN  IF parts = <<>> THEN [first |-> Dash, last |-> Dash]
        ELSE [first |-> IF Head(parts) # <<>> THEN Head(parts) ELSE Dash,
              last  |-> IF Len(parts) > 1 THEN joinWords(Tail(parts)) ELSE Dash]

(***************************************************************************)
(* The Deal name (part_000 lines 252-253) and the company name it derives  *)
(* from a domain (titleCase, lines 137-143; companyNameFromDomain, lines   *)
(* 144-147).                                                               *)
(***************************************************************************)
toUpperCaseChar(c) ==
    IF \E k \in 1..Len(LowerChars) : LowerChars[k] = c
    THEN UpperChars[CHOOSE k \in 1..Len(LowerChars) : LowerChars[k] = c]
    ELSE c

TitleSeps == {" ", "\t", "-", "_", "."}

\* s.split(/[\s\-_.]+/).filter(Boolean)
RECURSIVE titleWords(_)
titleWords(s) ==
    IF s = <<>> THEN <<>>
    ELSE IF Head(s) \in TitleSeps THEN titleWords(Tail(s))
    ELSE LET n == FirstIn(s, TitleSeps) - 1
         IN  <<SubSeq(s, 1, n)>> \o titleWords(SubSeq(s, n + 1, Len(s)))

\* w[0]?.toUpperCase() + w.slice(1).toLowerCase(), for each word
RECURSIVE capitalized(_)
capitalized(ws) ==
    IF ws = <<>> THEN <<>>
    ELSE <<(<<toUpperCaseChar(Head(ws)[1])>> \o toLowerCase(Tail(Head(ws))))>>
             \o capitalized(Tail(ws))

titleCase(s) == joinWords(capitalized(titleWords(s)))

\* s.replace(/-/g, ' ')
RECURSIVE dashesToSpaces(_)
dashesToSpaces(s) ==
    IF s = <<>> THEN <<>>
    ELSE <<(IF Head(s) = "-" THEN " " ELSE Head(s))>> \o dashesToSpaces(Tail(s))

\* domain.split('.').slice(0, -1).join('.') || domain.split('.')[0] || ''
companyNameFromDomain(domain) ==
    LET lastDot == LastIn(domain, {"."})
        core    == IF lastDot = 0 THEN domain
                   ELSE IF lastDot > 1 THEN SubSeq(domain, 1, lastDot - 1)
                   ELSE <<>>
    IN  titleCase(dashesToSpaces(core))

\* 'Inbound ' + U+2014 + ' '; the dash is written here as one character "--".
InboundPrefix == <<"I", "n", "b", "o", "u", "n", "d", " ", "--", " ">>

AtSign == <<" ", "@", " ">>

\* dealName with the company named whenever the form names it.
dealName_CompanyWithoutDomain(fullName, email, companyNameField, domain) ==
    LET displayCompany == IF companyNameField # <<>> THEN companyNameField
                          ELSE IF domain # <<>> THEN companyNameFromDomain(domain)
                          ELSE <<>>
    IN  InboundPrefix \o (IF fullName # <<>> THEN fullName ELSE email)
            \o (IF displayCompany # <<>> THEN AtSign \o displayCompany ELSE <<>>)

\* Lines 252-253.
dealName(fullName, email, companyNameField, domain) ==
    LET displayCompany == IF domain # <<>>
                          THEN (IF companyNameField # <<>> THEN companyNameField
                                ELSE companyNameFromDomain(domain))
                          ELSE <<>>
    IN  InboundPrefix \o (IF fullName # <<>> THEN fullName ELSE email)
            \o (IF displayCompany # <<>> THEN AtSign \o displayCompany ELSE <<>>)

\* The Deal name of a submission: lines 185-196 and 252-253.
IdLinkDealName(fields) ==
    LET inp == TrimmedInputs(fields)
    IN  dealName(inp.fullName, inp.email, inp.companyName,
                 ResolveDomain(inp.website, inp.email))

(***************************************************************************)
(* Actions.  One action per stretch of handler code between two awaits:    *)
(* the entry runs up to the first outbound call (or the response), and     *)
(* each "return" action is the remote workspace answering the call in      *)
(* flight followed by the handler's code up to its next await.             *)
(***************************************************************************)
\* Deliveries are handled one after the other unless they may overlap.
CanStart(i) == overlap \/ \A j \in 1..(i - 1) : h[j].pc \in {"done", "off"}

Entering(i, variants) == h[i].pc = "idle" /\ h[i].variant \in variants /\ CanStart(i)

Suspended(i, variants, pc) == h[i].pc = pc /\ h[i].variant \in variants

\* What the workspace can answer to the call in flight of invocation i.
Outcomes(i) == CrmOutcomes(crm, crmUnique, answers, InFlight(h[i]))

\* The workspace answers the call in flight with out and the handler goes on
\* to r.
Answered(i, out, r) ==
    /\ crm' = CrmApply(crm, InFlight(h[i]), out)
    /\ h' = [h EXCEPT ![i] = r]

IdLinkHandler(i) ==
    /\ Entering(i, IdLinking)
    /\ h' = [h EXCEPT ![i] = IdLinkStart(h[i], token)]
    /\ UNCHANGED <<token, secret, crm, crmUnique, overlap, answers, calc>>

IdLinkCompanyReturn(i) ==
    /\ Suspended(i, IdLinking, "company")
    /\ \E out \in Outcomes(i) : Answered(i, out, IdLinkAfterCompany(Returned(h[i], out), out))
    /\ UNCHANGED <<token, secret, crmUnique, overlap, answers, calc>>

IdLinkPersonReturn(i) ==
    /\ Suspended(i, IdLinking, "person")
    /\ \E out \in Outcomes(i) : Answered(i, out, IdLinkAfterPerson(Returned(h[i], out), out))
    /\ UNCHANGED <<token, secret, crmUnique, overlap, answers, calc>>

IdLinkPersonCreateReturn(i) ==
    /\ Suspended(i, IdLinking, "personCreate")
    /\ \E out \in Outcomes(i) : Answered(i, out, IdLinkAfterPersonCreate(Returned(h[i], out), out))
    /\ UNCHANGED <<token, secret, crmUnique, overlap, answers, calc>>

IdLinkDealReturn(i) ==
    /\ Suspended(i, IdLinking, "deal")
    /\ \E out \in Outcomes(i) : Answered(i, out, IdLinkAfterDeal(Returned(h[i], out), out))
    /\ UNCHANGED <<token, secret, crmUnique, overlap, answers, calc>>

V1Handler(i) ==
    /\ Entering(i, {"tw_v1"})
    /\ h' = [h EXCEPT ![i] = V1Start(h[i], token)]
    /\ UNCHANGED <<token, secret, crm, crmUnique, overlap, answers, calc>>

V1PersonReturn(i) ==
    /\ Suspended(i, {"tw_v1"}, "person")
    /\ \E out \in Outcomes(i) : Answered(i, out, V1AfterPerson(Returned(h[i], out), out))
    /\ UNCHANGED <<token, secret, crmUnique, overlap, answers, calc>>

V1DealReturn(i) ==
    /\ Suspended(i, {"tw_v1"}, "deal")
    /\ \E out \in Outcomes(i) : Answered(i, out, V1AfterDeal(Returned(h[i], out), out))
    /\ UNCHANGED <<token, secret, crmUnique, overlap, answers, calc>>

V4Handler(i) ==
    /\ Entering(i, {"tw_v4"})
    /\ h' = [h EXCEPT ![i] = V4Start(h[i])]
    /\ UNCHANGED <<token, secret, crm, crmUnique, overlap, answers, calc>>

V4PersonReturn(i) ==
    /\ Suspended(i, {"tw_v4"}, "person")
    /\ \E out \in Outcomes(i) : Answered(i, out, V4AfterPerson(Returned(h[i], out), out))
    /\ UNCHANGED <<token, secret, crmUnique, overlap, answers, calc>>

V4CompanyReturn(i) ==
    /\ Suspended(i, {"tw_v4"}, "company")
    /\ \E out \in Outcomes(i) : Answered(i, out, V4AfterCompany(Returned(h[i], out), out))
    /\ UNCHANGED <<token, secret, crmUnique, overlap, answers, calc>>

V4DealReturn(i) ==
    /\ Suspended(i, {"tw_v4"}, "deal")
    /\ \E out \in Outcomes(i) : Answered(i, out, V4AfterDeal(Returned(h[i], out), out))
    /\ UNCHANGED <<token, secret, crmUnique, overlap, answers, calc>>

QcHandler(i) ==
    /\ Entering(i, QueryCreate)
    /\ h' = [h EXCEPT ![i] = QcStart(h[i])]
    /\ UNCHANGED <<token, secret, crm, crmUnique, overlap, answers, calc>>

findOrCreatePerson_queried(i) ==
    /\ Suspended(i, QueryCreate, "personQuery")
    /\ \E out \in Outcomes(i) : Answered(i, out, QcAfterPersonQuery(Returned(h[i], out), out))
    /\ UNCHANGED <<token, secret, crmUnique, overlap, answers, calc>>

findOrCreatePerson_created(i) ==
    /\ Suspended(i, QueryCreate, "personCreate")
    /\ \E out \in Outcomes(i) : Answered(i, out, QcAfterPersonCreate(Returned(h[i], out), out))
    /\ UNCHANGED <<token, secret, crmUnique, overlap, answers, calc>>

findOrCreateCompany_queried(i) ==
    /\ Suspended(i, QueryCreate, "companyQuery")
    /\ \E out \in Outcomes(i) : Answered(i, out, QcAfterCompanyQuery(Returned(h[i], out), out))
    /\ UNCHANGED <<token, secret, crmUnique, overlap, answers, calc>>

findOrCreateCompany_created(i) ==
    /\ Suspended(i, QueryCreate, "companyCreate")
    /\ \E out \in Outcomes(i) : Answered(i, out, QcAfterCompanyCreate(Returned(h[i], out), out))
    /\ UNCHANGED <<token, secret, crmUnique, overlap, answers, calc>>

createDeal_queried(i) ==
    /\ Suspended(i, QueryCreate, "dealQuery")
    /\ \E out \in Outcomes(i) : Answered(i, out, QcAfterDealQuery(Returned(h[i], out), out))
    /\ UNCHANGED <<token, secret, crmUnique, overlap, answers, calc>>

createDeal_created(i) ==
    /\ Suspended(i, QueryCreate, "dealCreate")
    /\ \E out \in Outcomes(i) : Answered(i, out, QcAfterDealCreate(Returned(h[i], out), out))
    /\ UNCHANGED <<token, secret, crmUnique, overlap, answers, calc>>

P2Handler(i) ==
    /\ Entering(i, {"part_002"})
    /\ h' = [h EXCEPT ![i] = P2Start(h[i], secret)]
    /\ UNCHANGED <<token, secret, crm, crmUnique, overlap, answers, calc>>

P2PersonReturn(i) ==
    /\ Suspended(i, {"part_002"}, "person")
    /\ \E out \in Outcomes(i) : Answered(i, out, P2AfterPerson(Returned(h[i], out), out))
    /\ UNCHANGED <<token, secret, crmUnique, overlap, answers, calc>>

P2DealReturn(i) ==
    /\ Suspended(i, {"part_002"}, "deal")
    /\ \E out \in Outcomes(i) : Answered(i, out, P2AfterDeal(Returned(h[i], out), out))
    /\ UNCHANGED <<token, secret, crmUnique, overlap, answers, calc>>

SmokeHandler(i) ==
    /\ Entering(i, {"part_003"})
    /\ h' = [h EXCEPT ![i] = SmokeStart(h[i])]
    /\ UNCHANGED <<token, secret, crm, crmUnique, overlap, answers, calc>>

P4Handler(i) ==
    /\ Entering(i, {"part_004"})
    /\ h' = [h EXCEPT ![i] = P4Start(h[i])]
    /\ UNCHANGED <<token, secret, crm, crmUnique, overlap, answers, calc>>

\* upsertPerson, lines 65-78: the POST has returned.
upsertPerson_created(i) ==
    /\ Suspended(i, {"part_004"}, "personCreate")
    /\ \E out \in Outcomes(i) :
          LET r == Returned(h[i], out)
          IN  Answered(i, out,
                IF out.kind = "throw" THEN P4Catch(r)
                ELSE IF IsOk(out)
                THEN IF P4IdThrows(out) THEN P4Catch(r)
                     ELSE P4Company([r EXCEPT !.personId = extractRecordId(out.body)])
                ELSE IF out.body = "unreadable" \/ r.email = <<>> THEN P4Catch(r)
                ELSE Issue(r, Query("person", r.email, ""), "personSearch"))
    /\ UNCHANGED <<token, secret, crmUnique, overlap, answers, calc>>

\* upsertPerson, lines 79-91: the search has returned.
upsertPerson_searched(i) ==
    /\ Suspended(i, {"part_004"}, "personSearch")
    /\ \E out \in Outcomes(i) :
          LET r == Returned(h[i], out)
          IN  Answered(i, out,
                IF ~IsOk(out) \/ out.body # "hit" THEN P4Catch(r)
                ELSE Issue(r, Call("person", "update", r.email, "n/a", "n/a", ""), "personUpdate"))
    /\ UNCHANGED <<token, secret, crmUnique, overlap, answers, calc>>

\* upsertPerson, lines 92-97: the PATCH has returned; then upsertCompany.
upsertPerson_updated(i) ==
    /\ Suspended(i, {"part_004"}, "personUpdate")
    /\ \E out \in Outcomes(i) :
          LET r == Returned(h[i], out)
          IN  Answered(i, out,
                IF ~IsOk(out) THEN P4Catch(r)
                ELSE P4Company([r EXCEPT !.personId = "rec"]))
    /\ UNCHANGED <<token, secret, crmUnique, overlap, answers, calc>>

\* upsertCompany, lines 121-129: the POST has returned.
upsertCompany_created(i) ==
    /\ Suspended(i, {"part_004"}, "companyCreate")
    /\ \E out \in Outcomes(i) :
          LET r == Returned(h[i], out)
          IN  Answered(i, out,
                IF out.kind = "throw" THEN P4Catch(r)
                ELSE IF IsOk(out)
                THEN IF P4IdThrows(out) THEN P4Catch(r)
                     ELSE P4Stage([r EXCEPT !.companyId = extractRecordId(out.body)])
                ELSE IF out.body = "unreadable" THEN P4Catch(r)
                ELSE Issue(r, Query("company", r.domain, ""), "companySearch"))
    /\ UNCHANGED <<token, secret, crmUnique, overlap, answers, calc>>

\* upsertCompany, lines 130-141: the search has returned.
upsertCompany_searched(i) ==
    /\ Suspended(i, {"part_004"}, "companySearch")
    /\ \E out \in Outcomes(i) :
          LET r == Returned(h[i], out)
          IN  Answered(i, out,
                IF ~IsOk(out) THEN P4Catch(r)
                ELSE IF out.body # "hit" THEN P4Stage(r)
                ELSE Issue(r, Call("company", "update", r.domain, "n/a", "n/a", ""),
                           "companyUpdate"))
    /\ UNCHANGED <<token, secret, crmUnique, overlap, answers, calc>>

\* upsertCompany, lines 142-146: the PATCH has returned.
upsertCompany_updated(i) ==
    /\ Suspended(i, {"part_004"}, "companyUpdate")
    /\ \E out \in Outcomes(i) :
          LET r == Returned(h[i], out)
          IN  Answered(i, out,
                IF ~IsOk(out) THEN P4Catch(r)
                ELSE P4Stage([r EXCEPT !.companyId = "rec"]))
    /\ UNCHANGED <<token, secret, crmUnique, overlap, answers, calc>>

\* upsertCompany, lines 161-167: the name-only POST has returned.
upsertCompany_namedOnly(i) ==
    /\ Suspended(i, {"part_004"}, "companyByName")
    /\ \E out \in Outcomes(i) :
          LET r == Returned(h[i], out)
          IN  Answered(i, out,
                IF out.kind = "throw" \/ out.body = "unreadable" THEN P4Catch(r)
                ELSE IF ~IsOk(out) THEN P4Stage(r)
                ELSE IF P4IdThrows(out) THEN P4Catch(r)
                ELSE P4Stage([r EXCEPT !.companyId = extractRecordId(out.body)]))
    /\ UNCHANGED <<token, secret, crmUnique, overlap, answers, calc>>

\* getDealStageOptionIdByName, lines 174-192: the attribute list has returned.
getDealStageOptionIdByName_listed(i) ==
    /\ Suspended(i, {"part_004"}, "attributes")
    /\ \E out \in Outcomes(i) :
          LET r == Returned(h[i], out)
          IN  Answered(i, out,
                IF ~IsOk(out) \/ out.body \in {"nonjson", "unreadable"} THEN P4Catch(r)
                ELSE IF out.body = "stage"
                THEN Issue(r, Call("stage", "attribute", <<>>, "n/a", "n/a", ""), "attribute")
                ELSE Issue(r, P4Deal(r), "deal"))
    /\ UNCHANGED <<token, secret, crmUnique, overlap, answers, calc>>

\* getDealStageOptionIdByName, lines 192-205: the attribute has returned.
getDealStageOptionIdByName_fetched(i) ==
    /\ Suspended(i, {"part_004"}, "attribute")
    /\ \E out \in Outcomes(i) :
          LET r == Returned(h[i], out)
          IN  Answered(i, out,
                IF out.kind = "throw" THEN P4Catch(r)
                ELSE IF IsOk(out) /\ out.body \in {"nonjson", "unreadable"} THEN P4Catch(r)
                ELSE Issue(r, P4Deal(r), "deal"))
    /\ UNCHANGED <<token, secret, crmUnique, overlap, answers, calc>>

\* createDeal, lines 241-254, and the response (lines 318-321).
createDeal_returned(i) ==
    /\ Suspended(i, {"part_004"}, "deal")
    /\ \E out \in Outcomes(i) :
          LET r == Returned(h[i], out)
          IN  Answered(i, out,
                IF ~IsOk(out) \/ P4IdThrows(out) THEN P4Catch(r)
                ELSE Reply(r, 200, [personId |-> r.personId, companyId |-> r.companyId,
                                    detail |-> "ok"]))
    /\ UNCHANGED <<token, secret, crmUnique, overlap, answers, calc>>

(***************************************************************************)
(* Specifications.                                                         *)
(***************************************************************************)
\* The requests a version v of the handler is tried with; what a version
\* never reads is left at its default.
Requests(v) ==
    [method : {"POST", "GET"},
     body : IF v = "part_002"
            THEN Bodies \cup {[kind |-> "badjson", fields |-> <<>>]}
            ELSE Bodies,
     responseId   : IF v \in Dedup THEN ExternalIds ELSE {""},
     submissionId : IF v \in Dedup THEN {"", "s1"} ELSE {""},
     debug        : IF v \in Dedup THEN BOOLEAN ELSE {FALSE},
     signature    : IF v = "part_002" THEN Signatures ELSE {NoSignature}]

\* A workspace that already knows Ada, example.com and the deal of response r1.
KnownCrm ==
    [people |-> <<TxtAdaEmail>>, companies |-> <<TxtBareHost>>,
     deals |-> <<[ext |-> "r1", personLink |-> "record_id", companyLink |-> "record_id"]>>]

\* One delivery, to any version of the handler.
Init ==
    /\ \E v \in Variants : \E rq \in Requests(v) :
          /\ h = [i \in Invocations |->
                   IF i = 1 THEN Fresh(v, rq) ELSE [Fresh(v, rq) EXCEPT !.pc = "off"]]
          /\ token \in (IF v \in IdLinking \cup {"tw_v1"} THEN BOOLEAN ELSE {TRUE})
          /\ secret \in (IF v = "part_002" THEN BOOLEAN ELSE {FALSE})
    /\ crm \in {EmptyCrm, KnownCrm}
    /\ crmUnique = FALSE
    /\ overlap = FALSE
    /\ answers = AllAnswers
    /\ calc = NoCalc

QcNext ==
    \E i \in Invocations :
        \/ QcHandler(i)
        \/ findOrCreatePerson_queried(i)
        \/ findOrCreatePerson_created(i)
        \/ findOrCreateCompany_queried(i)
        \/ findOrCreateCompany_created(i)
        \/ createDeal_queried(i)
        \/ createDeal_created(i)

Next ==
    \/ \E i \in Invocations :
        \/ IdLinkHandler(i)
        \/ IdLinkCompanyReturn(i)
        \/ IdLinkPersonReturn(i)
        \/ IdLinkPersonCreateReturn(i)
        \/ IdLinkDealReturn(i)
        \/ V1Handler(i)
        \/ V1PersonReturn(i)
        \/ V1DealReturn(i)
        \/ V4Handler(i)
        \/ V4PersonReturn(i)
        \/ V4CompanyReturn(i)
        \/ V4DealReturn(i)
        \/ P2Handler(i)
        \/ P2PersonReturn(i)
        \/ P2DealReturn(i)
        \/ SmokeHandler(i)
        \/ P4Handler(i)
        \/ upsertPerson_created(i)
        \/ upsertPerson_searched(i)
        \/ upsertPerson_updated(i)
        \/ upsertCompany_created(i)
        \/ upsertCompany_searched(i)
        \/ upsertCompany_updated(i)
        \/ upsertCompany_namedOnly(i)
        \/ getDealStageOptionIdByName_listed(i)
        \/ getDealStageOptionIdByName_fetched(i)
        \/ createDeal_returned(i)
    \/ QcNext

Spec == Init /\ [][Next]_vars

\* The same valid submission, with response id r1, delivered MaxDeliveries
\* times to a deduplicating handler, against a workspace that is empty at
\* first; one delivery after the other, or overlapping.  The workspace
\* accepts a write, rejects it, or the connection fails before or after the
\* write took effect.
DeliveryAnswers == {Response(200, "id"), Response(401, "error"), Thrown(TRUE), Thrown(FALSE)}

InitDeliveries ==
    /\ \E v \in Dedup :
          h = [i \in Invocations |->
                 Fresh(v, [method |-> "POST", body |-> [kind |-> "list", fields |-> FormFull],
                           responseId |-> "r1", submissionId |-> "s1",
                           debug |-> FALSE, signature |-> NoSignature])]
    /\ token = TRUE
    /\ secret = FALSE
    /\ crm = EmptyCrm
    /\ crmUnique \in BOOLEAN
    /\ overlap \in BOOLEAN
    /\ answers = DeliveryAnswers
    /\ calc = NoCalc

SpecDeliveries == InitDeliveries /\ [][QcNext]_vars

(***************************************************************************)
(* The helper functions of part_000 applied on their own, each to every    *)
(* argument of a bounded set.                                              *)
(***************************************************************************)
MaxNameLen == 4

NameChars == {"A", "d", " ", "\t"}

Strings(chars, n) == UNION {[1..k -> chars] : k \in 0..n}

Names == Strings(NameChars, MaxNameLen) \cup {TxtAdaLovelace, TxtAda}

\* Websites: a host name written bare or after a scheme, with or without a
\* path; no website; a text that names no host.
HostNames ==
    { <<"w", "w", "w", ".", "E", "x", "a", "m", "p", "l", "e", ".", "c", "o", "m">>,
      <<"A", "c", "m", "e", ".", "i", "o">>,
      <<"w", "w", "w", ".", "w", "w", "w", ".", "x", ".", "i", "o">>,
      <<"h", "t", "t", "p", "b", "i", "n", ".", "o", "r", "g">>,
      TxtBareHost, TxtGmailHost }

Websites ==
    [scheme : {<<>>, HttpsScheme, HttpScheme}, host : HostNames,
     path : {<<>>, <<"/", "p", "r", "i", "c", "i", "n", "g">>}]
        \cup [scheme : {<<>>}, host : {<<>>, TxtBadUrl}, path : {<<>>}]

WebsiteText(w) == w.scheme \o w.host \o w.path

Emails == {TxtAdaEmail, TxtBobEmail, TxtJaneEmail}

Calc(op, arg) == [op |-> op, arg |-> arg, out |-> <<>>, done |-> FALSE]

\* Lists of field objects: labels in two spellings, another label, no
\* label, a label that is a number; values that are texts or numbers.
MaxFields == 2

FieldLabels ==
    {JsStr(LblEmailAddress), JsStr(LblEmailAddressLc), JsStr(LblFullName), JsUndef, JsNum(5)}

FieldValues == {JsStr(TxtAda), JsStr(TxtAcme), JsStr(<<>>), JsNum(0), JsNum(7)}

FieldLists == Strings([label : FieldLabels, value : FieldValues], MaxFields)

\* The forms the handler reads an email from without throwing.
DealForms == {f \in Forms : ~TrimmedInputs(f).threw /\ TrimmedInputs(f).email # <<>>}

Calcs ==
    {Calc("splitName", x) : x \in Names}
        \cup {Calc("dealName", f) : f \in DealForms}
        \cup {Calc("pickField", [fields |-> f, label |-> LblEmailAddress]) : f \in FieldLists}
        \cup {Calc("domain", [website |-> w, email |-> e]) : w \in Websites, e \in Emails}

Applying(op) == calc.op = op /\ ~calc.done

Applied(out) ==
    /\ calc' = [calc EXCEPT !.out = out, !.done = TRUE]
    /\ UNCHANGED <<h, token, secret, crm, crmUnique, overlap, answers>>

ApplySplitName ==
    /\ Applying("splitName")
    /\ Applied(splitName(calc.arg))

\* part_000 lines 193-196: the domain of a submission.
ApplyResolveDomain ==
    /\ Applying("domain")
    /\ Applied(ResolveDomain(WebsiteText(calc.arg.website), calc.arg.email))

\* part_000 lines 117-119.
ApplyPickField ==
    /\ Applying("pickField")
    /\ Applied(IF pickFieldThrows(calc.arg.fields, calc.arg.label) THEN Threw
               ELSE Ok(pickField(calc.arg.fields, calc.arg.label)))

\* part_000 lines 252-253.
ApplyDealName ==
    /\ Applying("dealName")
    /\ Applied(IdLinkDealName(calc.arg))

NextFunctions ==
    \/ ApplySplitName
    \/ ApplyDealName
    \/ ApplyPickField
    \/ ApplyResolveDomain

InitFunctions ==
    /\ h = [i \in Invocations |->
              [Fresh("part_000", [method |-> "POST", body |-> [kind |-> "absent", fields |-> <<>>],
                                  responseId |-> "", submissionId |-> "",
                                  debug |-> FALSE, signature |-> NoSignature])
                  EXCEPT !.pc = "off"]]
    /\ token = TRUE
    /\ secret = FALSE
    /\ crm = EmptyCrm
    /\ crmUnique = FALSE
    /\ overlap = FALSE
    /\ answers = AllAnswers
    /\ calc \in Calcs

SpecFunctions == InitFunctions /\ [][NextFunctions]_vars

(***************************************************************************)
(* Vocabulary of the properties.                                           *)
(*   An outbound call "succeeded" when it completed with a 2xx answer; it  *)
(*   was "rejected" when the workspace answered it, completely, with a     *)
(*   non-2xx status.  A thrown fetch and a body stream that fails while it *)
(*   is read are transport failures, neither of the two.                   *)
(***************************************************************************)
Succeeded(out) == IsOk(out) /\ out.body # "unreadable"
Rejected(out)  == out.kind = "response" /\ out.status # 200 /\ out.body # "unreadable"
TransportFailure(out) == out.kind = "throw" \/ out.body = "unreadable"

CallIdx(r, target) == {k \in 1..Len(r.calls) : r.calls[k].target = target}

DealCreates(r) ==
    {k \in 1..Len(r.calls) : r.calls[k].target = "deal" /\ r.calls[k].op = "create"}

\* Deals of the workspace that carry the external id ext
DealsWith(ext) == Cardinality({k \in 1..Len(crm.deals) : crm.deals[k].ext = ext})

(***************************************************************************)
(* C1.  part_000: when the Company upsert is rejected and the Person       *)
(* upsert and the Deal creation both succeed, the response is 200, its     *)
(* companyId is null and the Deal payload links the company by domain.     *)
(***************************************************************************)
C1_Case(r) ==
    /\ r.variant = "part_000"
    /\ r.pc = "done"
    /\ Len(r.calls) = 3
    /\ r.calls[1].target = "company" /\ Rejected(r.calls[1].outcome)
    /\ r.calls[2].target = "person"  /\ Succeeded(r.calls[2].outcome)
    /\ r.calls[3].target = "deal"    /\ Succeeded(r.calls[3].outcome)

C1_CompanyFailureStill200 ==
    \A i \in Invocations :
        C1_Case(h[i]) =>
            /\ h[i].status = 200
            /\ h[i].body.companyId = ""
            /\ h[i].calls[3].companyLink = "domain"

C1_Witness == \E i \in Invocations : C1_Case(h[i]) /\ h[i].status = 200

(***************************************************************************)
(* C2.  part_000, as claimed: whatever way the Company upsert fails (a     *)
(* non-2xx answer, an unreadable body, a thrown fetch), the handler goes   *)
(* on to issue the Person upsert.                                          *)
(***************************************************************************)
C2_CompanyReturned(r) ==
    /\ r.variant = "part_000"
    /\ Len(r.calls) >= 1
    /\ r.calls[1].target = "company"
    /\ r.calls[1].outcome.kind # "pending"

C2_PersonIssued(r) == Len(r.calls) >= 2 /\ r.calls[2].target = "person"

C2_AnyCompanyFailureGoesOn ==
    \A i \in Invocations :
        (C2_CompanyReturned(h[i]) /\ ~Succeeded(h[i].calls[1].outcome)) => C2_PersonIssued(h[i])

(***************************************************************************)
(* C2, amended.  part_000: when the Company upsert is answered with a      *)
(* non-2xx status, or with a 2xx body that is not JSON, the handler still  *)
(* issues the Person upsert; when the Company call throws or its body      *)
(* cannot be read, the invocation ends with 500 and no Person call.        *)
(***************************************************************************)
C2_RejectedCompanyGoesOn ==
    \A i \in Invocations :
        C2_CompanyReturned(h[i]) =>
            LET out == h[i].calls[1].outcome
            IN  /\ (Rejected(out) \/ (Succeeded(out) /\ out.body = "nonjson"))
                      => C2_PersonIssued(h[i])
                /\ TransportFailure(out)
                      => (h[i].pc = "done" /\ h[i].status = 500 /\ Len(h[i].calls) = 1)

C2_Witness ==
    \E i \in Invocations :
        C2_CompanyReturned(h[i]) /\ Rejected(h[i].calls[1].outcome) /\ C2_PersonIssued(h[i])

(***************************************************************************)
(* C3.  part_000 and the first handler of api/tally-webhook.js: a rejected *)
(* Person upsert ends the invocation with 502 and no Deal creation call is *)
(* ever issued; a rejected Deal creation ends it with 502.                 *)
(***************************************************************************)
C3_RejectionIs502 ==
    \A i \in Invocations :
        h[i].variant \in {"part_000", "tw_v1"} =>
            \A k \in 1..Len(h[i].calls) :
                LET c == h[i].calls[k]
                IN  /\ (c.target = "person" /\ Rejected(c.outcome)) =>
                          (h[i].pc = "done" /\ h[i].status = 502 /\ CallIdx(h[i], "deal") = {})
                    /\ (c.target = "deal" /\ Rejected(c.outcome)) =>
                          (h[i].pc = "done" /\ h[i].status = 502)

C3_Witness ==
    \E i \in Invocations :
        /\ h[i].variant = "part_000"
        /\ \E k \in CallIdx(h[i], "person") : Rejected(h[i].calls[k].outcome)
        /\ h[i].status = 502

(***************************************************************************)
(* C4.  part_001 / part_005, as claimed: when the workspace rejects a      *)
(* Person call or the Deal creation call, the response status is 502.      *)
(***************************************************************************)
C4_RejectionIs502 ==
    \A i \in Invocations :
        (/\ h[i].variant \in Dedup
         /\ h[i].pc = "done"
         /\ \E k \in CallIdx(h[i], "person") \cup DealCreates(h[i]) :
                Rejected(h[i].calls[k].outcome))
            => h[i].status = 502

(***************************************************************************)
(* C5.  Every handler of api/tally-webhook.js and part_000, as claimed     *)
(* (with the token configured): a POST without an email-labelled field, or *)
(* with only a blank one, gets 400 and causes no outbound call.            *)
(***************************************************************************)
EmailLabels == {toLowerCase(LblEmailAddress), toLowerCase(LblWorkEmail)}

NoEmail(req) ==
    /\ req.body.kind \in {"list", "absent"}
    /\ \A k \in 1..Len(req.body.fields) :
           LET f == req.body.fields[k]
           IN  (f.label.t = "string" /\ toLowerCase(f.label.v) \in EmailLabels)
                   => (f.value.t = "string" /\ trim(f.value.v) = <<>>)

C5_MissingEmailIs400 ==
    \A i \in Invocations :
        (/\ h[i].variant \in {"part_000", "tw_v1", "tw_v2", "tw_v3", "tw_v4"}
         /\ token
         /\ h[i].req.method = "POST"
         /\ NoEmail(h[i].req)
         /\ h[i].pc \notin {"idle", "off"})
            => (h[i].pc = "done" /\ h[i].status = 400 /\ h[i].calls = <<>>)

(***************************************************************************)
(* C6.  Every handler of api/tally-webhook.js, as claimed: a 200 response  *)
(* is sent only after a Person call returned a success status and, after   *)
(* it, the Deal creation call returned a success status.                   *)
(***************************************************************************)
C6_200OnlyAfterPersonAndDeal ==
    \A i \in Invocations :
        (h[i].variant \in {"tw_v1", "tw_v2", "tw_v3", "tw_v4"} /\ h[i].status = 200) =>
            \E k \in CallIdx(h[i], "person"), m \in DealCreates(h[i]) :
                /\ k < m
                /\ IsOk(h[i].calls[k].outcome)
                /\ IsOk(h[i].calls[m].outcome)

(***************************************************************************)
(* C7.  part_000 and the third handler of api/tally-webhook.js: the        *)
(* outbound calls of an invocation are issued in the order Company,        *)
(* Person, Deal, each only after the previous one has returned; the        *)
(* Company call is the first call and a Deal call directly follows a       *)
(* Person call that returned.                                              *)
(***************************************************************************)
Rank(target) == CASE target = "company" -> 1 [] target = "person" -> 2 [] target = "deal" -> 3

C7_CallOrder ==
    \A i \in Invocations :
        h[i].variant \in IdLinking =>
            LET cs == h[i].calls
            IN  /\ \A k \in 1..(Len(cs) - 1) :
                      /\ cs[k].outcome.kind # "pending"
                      /\ Rank(cs[k].target) <= Rank(cs[k + 1].target)
                /\ \A k \in 1..Len(cs) :
                      /\ cs[k].target = "company" => k = 1
                      /\ cs[k].target = "deal" =>
                            (k = Len(cs) /\ k > 1 /\ cs[k - 1].target = "person")

C7_Witness ==
    \E i \in Invocations :
        /\ h[i].variant \in IdLinking
        /\ Len(h[i].calls) = 3
        /\ h[i].calls[1].target = "company"
        /\ h[i].calls[2].target = "person"
        /\ h[i].calls[3].target = "deal"

(***************************************************************************)
(* C8.  part_000 and the third handler of api/tally-webhook.js: when the   *)
(* domain resolved from the website, or else from the email, is in         *)
(* PERSONAL_DOMAINS, no Company upsert is issued and the Deal payload has  *)
(* no company association.                                                 *)
(***************************************************************************)
\* normalizeDomain(website) || emailDomain of a submission, before the denylist
CandidateDomain(fields) ==
    LET inp == TrimmedInputs(fields)
        nd  == normalizeDomain(inp.website)
    IN  IF nd # <<>> THEN nd ELSE toLowerCase(SplitSecond(inp.email, "@"))

\* The request bodies whose candidate domain is on the denylist
DenylistedBodies ==
    {b \in Bodies : ~TrimmedInputs(b.fields).threw /\ CandidateDomain(b.fields) \in PERSONAL_DOMAINS}

C8_Case(r) ==
    /\ r.variant \in IdLinking
    /\ r.pc \notin {"idle", "off"}
    /\ r.req.body \in DenylistedBodies

C8_PersonalDomainNoCompany ==
    \A i \in Invocations :
        C8_Case(h[i]) =>
            /\ CallIdx(h[i], "company") = {}
            /\ \A k \in CallIdx(h[i], "deal") : h[i].calls[k].companyLink = "none"

C8_Witness ==
    \E i \in Invocations :
        /\ C8_Case(h[i])
        /\ h[i].variant = "part_000"
        /\ h[i].email = TxtJaneEmail
        /\ h[i].status = 200
        /\ CallIdx(h[i], "deal") # {}

(***************************************************************************)
(* C9.  part_001 / part_005, as claimed: the same valid submission, with   *)
(* the same responseId, delivered twice one after the other leaves exactly *)
(* one Deal with that external id in the workspace.                        *)
(***************************************************************************)
AllDelivered == \A i \in Invocations : h[i].pc = "done"

C9_ReplayLeavesExactlyOne ==
    (~overlap /\ AllDelivered) => DealsWith("r1") = 1

(***************************************************************************)
(* C9, amended.  Deliveries handled one after the other leave at most one  *)
(* Deal with that external id, and exactly one as soon as one of the       *)
(* deliveries was answered 200.                                            *)
(***************************************************************************)
C9_ReplayLeavesAtMostOne ==
    ~overlap =>
        /\ DealsWith("r1") <= 1
        /\ (\E i \in Invocations : h[i].status = 200) => DealsWith("r1") = 1

C9_Witness ==
    /\ ~overlap
    /\ AllDelivered
    /\ \A i \in Invocations : h[i].status = 200
    /\ DealCreates(h[1]) # {}
    /\ \A i \in Invocations \ {1} : DealCreates(h[i]) = {}
    /\ DealsWith("r1") = 1

(***************************************************************************)
(* C10.  part_001 / part_005, as claimed: when deliveries of one event     *)
(* overlap, in every interleaving at most one Deal creation call for that  *)
(* external id is issued, so at most one Deal with it exists afterwards.   *)
(***************************************************************************)
CreatesIssued(ext) ==
    Cardinality({<<i, k>> \in Invocations \X (1..6) :
                    k \in DealCreates(h[i]) /\ h[i].calls[k].ext = ext})

C10_OverlapAtMostOneCreate ==
    overlap => (CreatesIssued("r1") <= 1 /\ DealsWith("r1") <= 1)

(***************************************************************************)
(* C10, amended.  Each invocation issues at most one Deal creation call    *)
(* for the external id, and only directly after its own existence query    *)
(* found no Deal; overlapping invocations can each find none and each      *)
(* issue a create, and at most one Deal with that id exists afterwards     *)
(* when the workspace itself rejects a create whose external_source_id     *)
(* already exists.                                                         *)
(***************************************************************************)
C10_CreateOnlyAfterOwnMiss ==
    /\ \A i \in Invocations :
          /\ Cardinality(DealCreates(h[i])) <= 1
          /\ \A k \in DealCreates(h[i]) :
                h[i].calls[k].ext # "" =>
                    /\ k > 1
                    /\ h[i].calls[k - 1].target = "deal"
                    /\ h[i].calls[k - 1].op = "query"
                    /\ h[i].calls[k - 1].outcome = Response(200, "miss")
    /\ crmUnique => DealsWith("r1") <= 1

C10_Witness ==
    /\ overlap
    /\ AllDelivered
    /\ CreatesIssued("r1") = 2
    /\ DealsWith("r1") = 2

(***************************************************************************)
(* C11.  part_001 / part_005: when createDeal has a non-empty externalId   *)
(* and its existence query is answered with at least one record, that step *)
(* leaves the workspace as it was, createDeal returns the first record of  *)
(* the answer, and the invocation ends there: it has issued no Deal        *)
(* creation call and issues none later.                                    *)
(***************************************************************************)
C11_QueryHit(i) ==
    /\ h[i].variant \in Dedup
    /\ h[i].pc = "dealQuery"
    /\ InFlight(h[i]).target = "deal"
    /\ InFlight(h[i]).op = "query"
    /\ h'[i].calls[Len(h[i].calls)].outcome = Response(200, "hit")

C11_ExistingDealIsNoOp ==
    [][\A i \in Invocations :
          C11_QueryHit(i) =>
              /\ h[i].ext # ""
              /\ crm' = crm
              /\ DealCreates(h'[i]) = {}
              /\ h'[i].deal = "existing.data[0]"
              /\ h'[i].pc = "done"]_vars

C11_Witness ==
    \E i \in Invocations :
        /\ h[i].variant = "part_005"
        /\ h[i].pc = "done"
        /\ h[i].deal = "existing.data[0]"
        /\ h[i].status = 200
        /\ DealsWith("r1") = 1

(***************************************************************************)
(* C12.  part_001, as claimed: after any number of invocations with the    *)
(* same email and domain, one after another or overlapping, the workspace  *)
(* holds at most one Person with the email and one Company with the        *)
(* domain, even while it accepts every create it receives.                 *)
(***************************************************************************)
PeopleWith(email) == Cardinality({k \in 1..Len(crm.people) : crm.people[k] = email})

CompaniesWith(domain) == Cardinality({k \in 1..Len(crm.companies) : crm.companies[k] = domain})

C12_Unique == PeopleWith(TxtAdaEmail) <= 1 /\ CompaniesWith(TxtBareHost) <= 1

C12_NeverADuplicate == ~crmUnique => C12_Unique

(***************************************************************************)
(* C12, amended.  Invocations run one after another leave at most one      *)
(* Person per email and one Company per domain.  Overlapping invocations   *)
(* can each find none and each create one; then there is at most one only  *)
(* when the workspace rejects a create whose key already exists.           *)
(***************************************************************************)
C12_SequentialNeverADuplicate == (~overlap \/ crmUnique) => C12_Unique

C12_Witness ==
    /\ ~overlap
    /\ ~crmUnique
    /\ AllDelivered
    /\ \A i \in Invocations : h[i].variant = "part_001" /\ h[i].status = 200
    /\ \E k \in CallIdx(h[1], "person") : h[1].calls[k].op = "create"
    /\ \A i \in Invocations \ {1} : \A k \in 1..Len(h[i].calls) : h[i].calls[k].op = "query"
    /\ PeopleWith(TxtAdaEmail) = 1
    /\ CompaniesWith(TxtBareHost) = 1

(***************************************************************************)
(* C13.  part_000 and the third handler of api/tally-webhook.js: in every  *)
(* Deal creation payload the person is linked by record id exactly when    *)
(* the last Person call returned a record id, and by email otherwise; the  *)
(* company, when the domain is non-empty, is linked by record id exactly   *)
(* when the Company upsert returned a record id, and by domain otherwise;  *)
(* without a domain there is no company link.                              *)
(***************************************************************************)
ReturnedAnId(out) == out = Response(200, "id")

C13_PersonResolved(r, k) == ReturnedAnId(r.calls[k - 1].outcome)

C13_CompanyResolved(r) ==
    \E j \in CallIdx(r, "company") : ReturnedAnId(r.calls[j].outcome)

C13_LinkByIdIffResolved ==
    \A i \in Invocations :
        h[i].variant \in IdLinking =>
            \A k \in DealCreates(h[i]) :
                LET c == h[i].calls[k]
                IN  /\ k > 1 /\ h[i].calls[k - 1].target = "person"
                    /\ c.personLink = (IF C13_PersonResolved(h[i], k) THEN "record_id" ELSE "email")
                    /\ c.companyLink =
                          (IF h[i].domain = <<>> THEN "none"
                           ELSE IF C13_CompanyResolved(h[i]) THEN "record_id" ELSE "domain")

C13_Witness ==
    \E i \in Invocations :
        /\ h[i].variant = "tw_v3"
        /\ \E k \in DealCreates(h[i]) :
              /\ h[i].calls[k].personLink = "email"
              /\ h[i].calls[k].companyLink = "record_id"
              /\ IsOk(h[i].calls[k - 1].outcome)

(***************************************************************************)
(* C14.  Every handler variant, as claimed: a POST whose data.fields is a  *)
(* well-formed list with a non-empty email (a request that passes the      *)
(* signature check, where there is one) ends with a response that is 200   *)
(* after a Person call that returned a success status, or 502, or 500;     *)
(* never 400, and never 200 without a successful Person call.              *)
(***************************************************************************)
\* The email a variant reads from the list, by its own labels.
C14_EmailRead(v, fields) ==
    CASE v \in IdLinking \cup {"tw_v4"} -> TrimmedInputs(fields).email
      [] v \in {"tw_v1", "part_002"}    -> V1Inputs(fields).email
      [] v \in QueryCreate              -> QcInputs(v, fields).email
      [] OTHER                          -> P4Inputs(fields).email

C14_ValidBodies ==
    [v \in Variants |->
        {b \in Bodies : b.kind = "list" /\ C14_EmailRead(v, b.fields) # <<>>}]

C14_ValidSubmission(r) ==
    /\ r.req.method = "POST"
    /\ r.req.body \in C14_ValidBodies[r.variant]
    /\ r.variant = "part_002" => verifyTallySignature(secret, r.req.signature)

C14_ValidSubmissionIsProcessed ==
    \A i \in Invocations :
        (C14_ValidSubmission(h[i]) /\ h[i].pc = "done") =>
            /\ h[i].status \in {200, 500, 502}
            /\ h[i].status = 200 =>
                  \E k \in CallIdx(h[i], "person") : IsOk(h[i].calls[k].outcome)

(***************************************************************************)
(* C15.  Every handler variant: a request whose method is not POST gets a  *)
(* 405 response and no outbound CRM call is issued for it.                 *)
(***************************************************************************)
C15_NotPost(r) == r.req.method # "POST" /\ r.pc \notin {"idle", "off"}

C15_OtherMethodIs405 ==
    \A i \in Invocations :
        C15_NotPost(h[i]) => (h[i].pc = "done" /\ h[i].status = 405 /\ h[i].calls = <<>>)

C15_Witness ==
    \E i \in Invocations :
        /\ C15_NotPost(h[i])
        /\ h[i].variant = "part_004"
        /\ h[i].req.body.kind = "list"
        /\ h[i].status = 405

(***************************************************************************)
(* C16.  part_001 and part_000 (with the token configured), as claimed: a  *)
(* POST whose body has no data.fields, or whose data.fields is not a list  *)
(* of {label, value} objects (a string, a plain object, a list with a null *)
(* entry), gets 400 and causes no outbound call.                           *)
(***************************************************************************)
C16_MalformedFieldsIs400 ==
    \A i \in Invocations :
        (/\ h[i].variant \in {"part_001", "part_000"}
         /\ token
         /\ h[i].req.method = "POST"
         /\ h[i].req.body.kind \in {"absent"} \cup Malformed
         /\ h[i].pc \notin {"idle", "off"})
            => (h[i].pc = "done" /\ h[i].status = 400 /\ h[i].calls = <<>>)

(***************************************************************************)
(* C17.  part_000 and the third handler of api/tally-webhook.js: when the  *)
(* CRM bearer token is not configured, a POST gets 500 and no outbound     *)
(* call is issued.                                                         *)
(***************************************************************************)
C17_PostWithoutToken(r) ==
    /\ r.variant \in IdLinking
    /\ ~token
    /\ r.req.method = "POST"
    /\ r.pc \notin {"idle", "off"}

C17_MissingTokenIs500 ==
    \A i \in Invocations :
        C17_PostWithoutToken(h[i]) =>
            (h[i].pc = "done" /\ h[i].status = 500 /\ h[i].calls = <<>>)

C17_Witness ==
    \E i \in Invocations :
        /\ C17_PostWithoutToken(h[i])
        /\ h[i].variant = "tw_v3"
        /\ h[i].req.body \in C14_ValidBodies["tw_v3"]
        /\ h[i].status = 500

(***************************************************************************)
(* C18.  part_000 and part_002: a POST invocation sends one response and   *)
(* does nothing after it (no second response, no further outbound call);   *)
(* when an outbound call throws, or reading a response body fails, the     *)
(* invocation ends at once, and with 500.  part_002 reads a body only of a *)
(* non-2xx answer.                                                         *)
(***************************************************************************)
C18_ReadFails(r, k) ==
    LET out == r.calls[k].outcome
    IN  \/ out.kind = "throw"
        \/ /\ out.kind = "response"
           /\ out.body = "unreadable"
           /\ r.variant = "part_002" => ~IsOk(out)

C18_Post(r) == r.variant \in {"part_000", "part_002"} /\ r.req.method = "POST"

C19_Generic500WithoutDebug ==
    \A i \in Invocations :
        (h[i].variant \in Dedup /\ ~h[i].req.debug /\ h[i].status = 500)
            => h[i].body.detail = "none"

(***************************************************************************)
(* C20.  part_002: with a signing secret configured, a POST whose          *)
(* tally-signature header is absent or differs from the base64 HMAC-SHA256 *)
(* of the raw body under that secret gets 401 and causes no outbound call; *)
(* with no signing secret configured, no request gets 401.                 *)
(***************************************************************************)
C20_Started(r) == r.variant = "part_002" /\ r.pc \notin {"idle", "off"}

C20_BadSignature(r) ==
    /\ secret
    /\ r.req.method = "POST"
    /\ r.req.signature # Digest("TALLY_SIGNING_SECRET", "rawBody")

C20_SignatureMismatchIs401 ==
    \A i \in Invocations :
        C20_Started(h[i]) =>
            /\ C20_BadSignature(h[i]) =>
                  (h[i].pc = "done" /\ h[i].status = 401 /\ h[i].calls = <<>>)
            /\ ~secret => h[i].status # 401

C20_Witness ==
    \E i \in Invocations :
        /\ C20_Started(h[i])
        /\ C20_BadSignature(h[i])
        /\ h[i].req.signature = Digest("another key", "rawBody")
        /\ h[i].req.body \in C14_ValidBodies["part_002"]
        /\ h[i].status = 401

(***************************************************************************)
(* C21.  Third handler of api/tally-webhook.js, as claimed: a second       *)
(* Person call is issued only after the first Person call was rejected     *)
(* with a schema-validation error (400); after 401, 429 or a 5xx answer    *)
(* there is no second Person call; no invocation issues more than two.     *)
(***************************************************************************)
C21_PersonCalls(r) == CallIdx(r, "person")

C21_FallbackOnlyOnSchemaError ==
    \A i \in Invocations :
        h[i].variant = "tw_v3" =>
            /\ Cardinality(C21_PersonCalls(h[i])) <= 2
            /\ \A k, m \in C21_PersonCalls(h[i]) :
                  k < m => h[i].calls[k].outcome = Response(400, "error")

(***************************************************************************)
(* C22.  splitName: for every input string, first and last are non-empty;  *)
(* first is the first white-space-separated token, last is the remaining   *)
(* tokens joined by single spaces; '-' stands in for last when there is    *)
(* one token and for both when there is none.                              *)
(***************************************************************************)
\* The positions of s at which a token starts, and the token that starts there.
C22_Starts(s) == {k \in 1..Len(s) : ~IsSpace(s[k]) /\ (k = 1 \/ IsSpace(s[k - 1]))}

C22_TokenAt(s, k) ==
    SubSeq(s, k, CHOOSE e \in k..Len(s) :
                     /\ \A m \in k..e : ~IsSpace(s[m])
                     /\ (e = Len(s) \/ IsSpace(s[e + 1])))

C22_Min(S) == CHOOSE k \in S : \A m \in S : k <= m

RECURSIVE C22_Joined(_, _)
C22_Joined(s, S) ==
    IF S = {} THEN <<>>
    ELSE LET k == C22_Min(S)
         IN  C22_TokenAt(s, k) \o (IF S = {k} THEN <<>>
                                    ELSE <<" ">> \o C22_Joined(s, S \ {k}))

C22_Ok(s, r) ==
    LET S == C22_Starts(s)
    IN  /\ r.first # <<>> /\ r.last # <<>>
        /\ r.first = (IF S = {} THEN Dash ELSE C22_TokenAt(s, C22_Min(S)))
        /\ r.last = (IF Cardinality(S) <= 1 THEN Dash ELSE C22_Joined(s, S \ {C22_Min(S)}))

C22_SplitNameFirstAndLast ==
    (calc.op = "splitName" /\ calc.done) => C22_Ok(calc.arg, calc.out)

C22_Witness ==
    /\ calc.op = "splitName" /\ calc.done
    /\ calc.arg = TxtAda
    /\ calc.out = [first |-> TxtAda, last |-> Dash]

(***************************************************************************)
(* C23.  part_000, as claimed: for a website that names a host, written    *)
(* with a scheme or as a bare host name, the derived domain is that host   *)
(* name in lower case without scheme, path and one leading 'www.'; when    *)
(* the website is absent or names no host, it is the lower-cased part of   *)
(* the email after '@'.  (Stated for domains outside the personal-provider *)
(* list, which the handler discards.)                                      *)
(***************************************************************************)
C23_Expected(a) ==
    LET host == toLowerCase(a.website.host)
    IN  IF a.website.host \in HostNames
        THEN IF startsWith(host, WwwDot) THEN SubSeq(host, Len(WwwDot) + 1, Len(host))
             ELSE host
        ELSE toLowerCase(SplitSecond(a.email, "@"))

C23_DomainIsTheHostName ==
    (calc.op = "domain" /\ calc.done /\ C23_Expected(calc.arg) \notin PERSONAL_DOMAINS)
        => calc.out = C23_Expected(calc.arg)

(***************************************************************************)
(* C24.  pickField, as claimed: for every list of field objects it returns *)
(* the value of the first field, in list order, whose label equals the     *)
(* requested label ignoring case, the empty string when no field matches,  *)
(* and it never throws.                                                    *)
(***************************************************************************)
\* The label of a field as a text ('' for a missing one), and the first
\* field of the list that carries the requested label.
C24_LabelText(f) == IF f.label.t = "string" THEN f.label.v ELSE <<>>

C24_Matches(a) ==
    {k \in 1..Len(a.fields) :
        /\ a.fields[k].label.t \in {"string", "undefined"}
        /\ toLowerCase(C24_LabelText(a.fields[k])) = toLowerCase(a.label)}

C24_First(S) == CHOOSE k \in S : \A m \in S : k <= m

C24_FirstMatchOrEmpty ==
    (calc.op = "pickField" /\ calc.done) =>
        LET a == calc.arg
        IN  /\ ~calc.out.threw
            /\ calc.out.v = (IF C24_Matches(a) = {} THEN JsStr(<<>>)
                             ELSE a.fields[C24_First(C24_Matches(a))].value)

(***************************************************************************)
(* C24, amended.  pickField returns the value of the first field whose     *)
(* label equals the requested label ignoring case when that value is       *)
(* truthy, and the empty string when no field matches or the value of the  *)
(* first match is falsy ('', 0); a missing label never matches and never   *)
(* throws; it throws exactly when a field before any match has a label     *)
(* that is truthy and not a string.                                        *)
(***************************************************************************)
C24_NotText(a) ==
    {k \in 1..Len(a.fields) :
        a.fields[k].label.t \notin {"string", "undefined"} /\ Truthy(a.fields[k].label)}

C24_FirstTruthyMatchOrEmpty ==
    (calc.op = "pickField" /\ calc.done) =>
        LET a == calc.arg
            M == C24_Matches(a)
            N == C24_NotText(a)
            throws == N # {} /\ (M = {} \/ C24_First(N) < C24_First(M))
        IN  /\ calc.out.threw = throws
            /\ ~throws =>
                  calc.out.v = (IF M # {} /\ Truthy(a.fields[C24_First(M)].value)
                                THEN a.fields[C24_First(M)].value
                                ELSE JsStr(<<>>))

C24_Witness ==
    /\ calc.op = "pickField" /\ calc.done
    /\ calc.arg.fields = << Field(JsUndef, JsStr(TxtAcme)),
                            Field(JsStr(LblEmailAddressLc), JsStr(TxtAda)) >>
    /\ calc.out = Ok(JsStr(TxtAda))

(***************************************************************************)
(* C25.  part_000, as claimed: the Deal name is "Inbound -- " and the full *)
(* name, or the email when there is no full name, followed by " @ " and    *)
(* the company display name whenever the submission supplies a Company     *)
(* Name or a non-personal domain was resolved, and by nothing otherwise.   *)
(***************************************************************************)
C25_Who(inp) == IF inp.fullName # <<>> THEN inp.fullName ELSE inp.email

C25_Display(inp, domain) ==
    IF inp.companyName # <<>> THEN inp.companyName ELSE companyNameFromDomain(domain)

C25_CompanyNamedWheneverKnown ==
    (calc.op = "dealName" /\ calc.done) =>
        LET inp    == TrimmedInputs(calc.arg)
            domain == ResolveDomain(inp.website, inp.email)
        IN  calc.out = InboundPrefix \o C25_Who(inp)
                          \o (IF (inp.companyName # <<>> \/ domain # <<>>)
                                    /\ C25_Display(inp, domain) # <<>>
                              THEN AtSign \o C25_Display(inp, domain) ELSE <<>>)

(***************************************************************************)
(* C25, amended.  The " @ " part is there exactly when a non-personal      *)
(* domain was resolved (and yields a non-empty display name): then it      *)
(* carries the Company Name of the form, or, without one, the name derived *)
(* from the domain; with no resolved domain the name ends after the full   *)
(* name or email, also when the form supplies a Company Name.              *)
(***************************************************************************)
C25_CompanyNamedOnlyWithDomain ==
    (calc.op = "dealName" /\ calc.done) =>
        LET inp    == TrimmedInputs(calc.arg)
            domain == ResolveDomain(inp.website, inp.email)
        IN  calc.out = InboundPrefix \o C25_Who(inp)
                          \o (IF domain # <<>> /\ C25_Display(inp, domain) # <<>>
                              THEN AtSign \o C25_Display(inp, domain) ELSE <<>>)

\* 'Inbound -- Bob@Corp.io @ Corp': no full name, no Company Name, the
\* domain corp.io taken from the email.
C25_Witness ==
    /\ calc.op = "dealName" /\ calc.done
    /\ calc.arg = FormEmailOnly
    /\ calc.out = InboundPrefix \o TxtBobEmail \o AtSign \o <<"C", "o", "r", "p">>

(***************************************************************************)
(* C26.  part_000: when the Person upsert or the Deal creation is          *)
(* rejected, the invocation issues no further call of any kind (the        *)
(* rejected call is its last call and the invocation is over), its calls   *)
(* are upserts and creates only, and the records the workspace holds stay: *)
(* no step removes or changes a record written before.                     *)
(***************************************************************************)
C26_RequiredStepRejected(r, k) ==
    /\ r.variant = "part_000"
    /\ r.calls[k].target \in {"person", "deal"}
    /\ Rejected(r.calls[k].outcome)

C26_Prefix(s, t) == Len(s) <= Len(t) /\ SubSeq(t, 1, Len(s)) = s

C26_FailedStepEndsPipeline ==
    [][\A i \in Invocations :
          h'[i].variant = "part_000" =>
              /\ \A k \in 1..Len(h'[i].calls) :
                    /\ h'[i].calls[k].op \in {"upsert", "create"}
                    /\ C26_RequiredStepRejected(h'[i], k) =>
                          (k = Len(h'[i].calls) /\ h'[i].pc = "done")
              /\ h[i].pc = "done" => h'[i].calls = h[i].calls
              /\ C26_Prefix(crm.people, crm'.people)
              /\ C26_Prefix(crm.companies, crm'.companies)
              /\ C26_Prefix(crm.deals, crm'.deals)]_vars

\* The Company upsert wrote a record, the Person upsert was rejected: 502
\* after two calls, and the company is still there.
C26_Witness ==
    \E i \in Invocations :
        /\ Len(h[i].calls) = 2
        /\ C26_RequiredStepRejected(h[i], 2)
        /\ h[i].calls[1].target = "company" /\ Succeeded(h[i].calls[1].outcome)
        /\ h[i].status = 502
        /\ \E k \in 1..Len(crm.companies) : crm.companies[k] = h[i].calls[1].key

(***************************************************************************)
(* C27.  part_000 checks the method, then the token, then the email: a     *)
(* POST without a configured token and without an email gets 500, never    *)
(* 400, and causes no call; the first handler of api/tally-webhook.js      *)
(* checks the email first and answers 400 to the same request.             *)
(***************************************************************************)
C27_NoTokenNoEmail(r) ==
    /\ ~token
    /\ r.req.method = "POST"
    /\ NoEmail(r.req)
    /\ r.pc \notin {"idle", "off"}

C27_TokenBeforeEmail ==
    \A i \in Invocations :
        C27_NoTokenNoEmail(h[i]) =>
            /\ h[i].variant = "part_000" =>
                  (h[i].pc = "done" /\ h[i].status = 500 /\ h[i].calls = <<>>)
            /\ h[i].variant = "tw_v1" =>
                  (h[i].pc = "done" /\ h[i].status = 400 /\ h[i].calls = <<>>)

C27_Witness ==
    \E i \in Invocations :
        /\ C27_NoTokenNoEmail(h[i])
        /\ h[i].variant = "part_000"
        /\ h[i].req.body = [kind |-> "list", fields |-> FormBlankEmail]
        /\ h[i].status = 500

(***************************************************************************)
(* C28.  part_001 / part_005: the external id is data.responseId when it   *)
(* is non-empty, otherwise data.submissionId, otherwise none.  Every Deal  *)
(* call of an invocation carries that id; when there is none, no Deal      *)
(* existence query is issued, the creation payload has no                  *)
(* external_source_id, and a successful invocation has issued exactly one  *)
(* Deal creation call.                                                     *)
(***************************************************************************)
C28_Expected(req) ==
    IF req.responseId # "" THEN req.responseId
    ELSE IF req.submissionId # "" THEN req.submissionId
    ELSE ""

C28_DealCalls(r) == CallIdx(r, "deal")

C28_FirstDealCall(r) ==
    r.calls[CHOOSE k \in C28_DealCalls(r) : \A m \in C28_DealCalls(r) : k <= m]

C28_ExternalIdChoice ==
    \A i \in Invocations :
        h[i].variant \in Dedup =>
            /\ \A k \in C28_DealCalls(h[i]) : h[i].calls[k].ext = C28_Expected(h[i].req)
            /\ C28_DealCalls(h[i]) # {} /\ C28_Expected(h[i].req) # ""
                  => C28_FirstDealCall(h[i]).op = "query"
            /\ C28_Expected(h[i].req) = "" =>
                  /\ \A k \in C28_DealCalls(h[i]) : h[i].calls[k].op = "create"
                  /\ h[i].pc = "done" /\ h[i].status = 200
                        => Cardinality(DealCreates(h[i])) = 1

C28_Witness ==
    \E i \in Invocations :
        /\ h[i].variant \in Dedup
        /\ h[i].req.responseId = "" /\ h[i].req.submissionId = ""
        /\ h[i].pc = "done" /\ h[i].status = 200
        /\ Cardinality(DealCreates(h[i])) = 1
        /\ h[i].calls[Len(h[i].calls)].ext = ""

(***************************************************************************)
(* C29.  part_002: the signature is checked on the raw body before the     *)
(* body is parsed and before any field is read.  A POST whose signature    *)
(* does not match gets 401 even when its body is not valid JSON, has no    *)
(* email or cannot be searched for fields, and 400 is only sent to a       *)
(* request whose signature check passed.                                   *)
(***************************************************************************)
C29_Mismatch(r) ==
    /\ secret
    /\ r.req.method = "POST"
    /\ r.req.signature # Digest("TALLY_SIGNING_SECRET", "rawBody")

C29_Unusable(req) ==
    \/ req.body.kind = "badjson"
    \/ FindThrows(req.body)
    \/ NoEmail(req)

C29_SignatureBeforeParse ==
    \A i \in Invocations :
        (h[i].variant = "part_002" /\ h[i].pc \notin {"idle", "off"}) =>
            /\ (C29_Mismatch(h[i]) /\ C29_Unusable(h[i].req)) =>
                  (h[i].pc = "done" /\ h[i].status = 401 /\ h[i].calls = <<>>)
            /\ h[i].status = 400 =>
                  (~secret \/ h[i].req.signature = Digest("TALLY_SIGNING_SECRET", "rawBody"))

C29_Witness ==
    \E i \in Invocations :
        /\ h[i].variant = "part_002"
        /\ C29_Mismatch(h[i])
        /\ h[i].req.body.kind = "badjson"
        /\ h[i].pc = "done"
        /\ h[i].status = 401

(***************************************************************************)
(* C30.  part_000: the denylist is applied after the choice between the    *)
(* website and the email, and nothing falls back a second time.  When the  *)
(* website normalizes to a personal-provider domain while the email's own  *)
(* domain is a non-personal one, the resolved domain is empty: the         *)
(* invocation issues no Company upsert and its Deal links no company.      *)
(***************************************************************************)
C30_PersonalSite(r) ==
    /\ r.variant = "part_000"
    /\ r.req.method = "POST"
    /\ token
    /\ r.pc \notin {"idle", "off"}
    /\ ~FindThrows(r.req.body)
    /\ LET inp == TrimmedInputs(r.req.body.fields)
           emailDomain == toLowerCase(SplitSecond(inp.email, "@"))
       IN  /\ ~inp.threw
           /\ inp.email # <<>>
           /\ normalizeDomain(inp.website) \in PERSONAL_DOMAINS
           /\ emailDomain # <<>>
           /\ emailDomain \notin PERSONAL_DOMAINS

C30_NoSecondFallback ==
    \A i \in Invocations :
        C30_PersonalSite(h[i]) =>
            /\ h[i].domain = <<>>
            /\ CallIdx(h[i], "company") = {}
            /\ \A k \in CallIdx(h[i], "deal") : h[i].calls[k].companyLink = "none"

C30_Witness ==
    \E i \in Invocations :
        /\ C30_PersonalSite(h[i])
        /\ h[i].req.body.fields = FormGmailSite
        /\ h[i].pc = "done"
        /\ h[i].status = 200
        /\ CallIdx(h[i], "deal") # {}
        /\ CallIdx(h[i], "company") = {}

====
